---- MODULE Spec2Model ----
(***************************************************************************)
(* A model of the ML Resume Formatter (src/app.py): the text normaliser,   *)
(* the validator, the edit reconciler that main() runs inline, and the     *)
(* session life cycle that main() drives on every script run.              *)
(*                                                                         *)
(* Python values carry their type at run time, so every value is a record  *)
(* with a tag field t: "none", "str", "int", "list" or "dict", and (but    *)
(* for None) a payload v.  A str is a sequence of one-character strings,   *)
(* a list a sequence of values, a dict a function from key names to        *)
(* values.  A character outside ASCII is written by its code point.        *)
(***************************************************************************)
EXTENDS Integers, Sequences, FiniteSets, TLC

VARIABLES
    api_key,                    \* whether get_api_key() returns a key
    uploaded_file,              \* the resume uploader's current file
    candidate_sheet_file,       \* the candidate-sheet uploader's current file
    parsed_resume,              \* st.session_state["parsed_resume"]
    edited_resume,              \* st.session_state["edited_resume"]
    parse_warnings,             \* st.session_state["parse_warnings"]
    generated_pdf,              \* st.session_state["generated_pdf"]
    edited_json,                \* st.session_state["edited_json"]
    validation_errors,          \* st.session_state["validation_errors"]
    validation_warnings,        \* st.session_state["validation_warnings"]
    uploaded_file_signature,    \* st.session_state["uploaded_file_signature"]
    uploaded_filename,          \* st.session_state["uploaded_filename"]
    candidate_sheet,            \* st.session_state["candidate_sheet"]
    candidate_sheet_signature,  \* st.session_state["candidate_sheet_signature"]
    widget_state,               \* st.session_state under the editor's widget keys
    notices,                    \* what the last script run showed (st.error, ...)
    discarded,                  \* history: the keys whose value the last run dropped
    probe                       \* a call of one pure function: its input and result

vars == <<api_key, uploaded_file, candidate_sheet_file, parsed_resume,
          edited_resume, parse_warnings, generated_pdf, edited_json,
          validation_errors, validation_warnings, uploaded_file_signature,
          uploaded_filename, candidate_sheet, candidate_sheet_signature,
          widget_state, notices, discarded, probe>>

session == <<parsed_resume, edited_resume, parse_warnings, generated_pdf,
             edited_json, validation_errors, validation_warnings,
             uploaded_file_signature, uploaded_filename, candidate_sheet,
             candidate_sheet_signature, widget_state>>

(***************************************************************************)
(* Python values                                                           *)
(***************************************************************************)
None == [t |-> "none"]
Str(s) == [t |-> "str", v |-> s]
Num(n) == [t |-> "int", v |-> n]
List(l) == [t |-> "list", v |-> l]
Dict(d) == [t |-> "dict", v |-> d]

EmptyDict == Dict([k \in {} |-> None])

IsNone(x) == x.t = "none"
IsStr(x) == x.t = "str"
IsList(x) == x.t = "list"
IsDict(x) == x.t = "dict"

\* bool(x): None, "", 0, [] and {} are false
Truthy(x) ==
    CASE x.t = "none" -> FALSE
      [] x.t = "str"  -> x.v # <<>>
      [] x.t = "int"  -> x.v # 0
      [] x.t = "list" -> x.v # <<>>
      [] x.t = "dict" -> DOMAIN x.v # {}

\* d.get(key, default) on a dict d
Get(d, key, default) == IF key \in DOMAIN d.v THEN d.v[key] ELSE default

\* d with d[key] = value
Put(d, key, value) ==
    Dict([k \in DOMAIN d.v \cup {key} |-> IF k = key THEN value ELSE d.v[k]])

\* d.pop(key, None), the dict that is left
Pop(d, key) == Dict([k \in DOMAIN d.v \ {key} |-> d.v[k]])

\* x or default
Or(x, default) == IF Truthy(x) THEN x ELSE default

\* any([...]) over a sequence of values
AnyTruthy(xs) == \E i \in 1..Len(xs) : Truthy(xs[i])

\* the lists f(1), ..., f(n) one after the other
ConcatMap(n, f(_)) ==
    LET out[i \in 0..n] == IF i = 0 THEN <<>> ELSE out[i - 1] \o f(i)
    IN out[n]

\* [f(x) for x in xs if keep(x)]
SelectMap(xs, keep(_), f(_)) ==
    LET out[i \in 0..Len(xs)] ==
            IF i = 0 THEN <<>>
            ELSE IF keep(xs[i]) THEN Append(out[i - 1], f(xs[i]))
            ELSE out[i - 1]
    IN out[Len(xs)]

(***************************************************************************)
(* Characters and str methods                                              *)
(***************************************************************************)
Whitespace == {" ", "\t", "\n", "\r", "\f"}
LineBreaks == {"\n", "\r", "\f"}
ControlChars == {"\f"}
UpperLetters == <<"A", "B", "C", "D", "E", "F", "G", "H", "I", "J", "K", "L", "M",
                  "N", "O", "P", "Q", "R", "S", "T", "U", "V", "W", "X", "Y", "Z">>
LowerLetters == <<"a", "b", "c", "d", "e", "f", "g", "h", "i", "j", "k", "l", "m",
                  "n", "o", "p", "q", "r", "s", "t", "u", "v", "w", "x", "y", "z">>
Upper == {UpperLetters[i] : i \in 1..26}
Lower == {LowerLetters[i] : i \in 1..26}
Digits == {"0", "1", "2", "3", "4", "5", "6", "7", "8", "9"}

RECURSIVE LStripChars(_, _)
LStripChars(s, chars) ==
    IF s = <<>> THEN <<>>
    ELSE IF Head(s) \in chars THEN LStripChars(Tail(s), chars) ELSE s

RECURSIVE RStripChars(_, _)
RStripChars(s, chars) ==
    IF s = <<>> THEN <<>>
    ELSE IF s[Len(s)] \in chars THEN RStripChars(SubSeq(s, 1, Len(s) - 1), chars)
    ELSE s

\* s.strip()
Strip(s) == RStripChars(LStripChars(s, Whitespace), Whitespace)

\* s.splitlines(): a line break ("\r\n" is one) ends a line; no empty last line
RECURSIVE SplitFrom(_, _)
SplitFrom(s, line) ==
    IF s = <<>> THEN (IF line = <<>> THEN <<>> ELSE <<line>>)
    ELSE IF Head(s) \in LineBreaks
         THEN <<line>> \o SplitFrom(IF Head(s) = "\r" /\ Len(s) > 1 /\ s[2] = "\n"
                                     THEN Tail(Tail(s)) ELSE Tail(s), <<>>)
    ELSE SplitFrom(Tail(s), Append(line, Head(s)))

SplitLines(s) == SplitFrom(s, <<>>)

\* "\n".join(lines) of a list of str values
RECURSIVE JoinLines(_)
JoinLines(lines) ==
    IF lines = <<>> THEN <<>>
    ELSE IF Len(lines) = 1 THEN lines[1].v
    ELSE lines[1].v \o <<"\n">> \o JoinLines(Tail(lines))

\* s.lower()
LowerOf(c) ==
    IF c \in Upper THEN LowerLetters[CHOOSE i \in 1..26 : UpperLetters[i] = c] ELSE c

ToLower(s) == [i \in 1..Len(s) |-> LowerOf(s[i])]

\* s.isupper(): a cased character, and no lower-case one
IsUpper(s) ==
    /\ \E i \in 1..Len(s) : s[i] \in Upper
    /\ \A i \in 1..Len(s) : s[i] \notin Lower

\* str(n) of a number 0..99
DigitChars == <<"0", "1", "2", "3", "4", "5", "6", "7", "8", "9">>

Decimal(n) ==
    IF n < 10 THEN <<DigitChars[n + 1]>>
    ELSE <<DigitChars[(n \div 10) + 1], DigitChars[(n % 10) + 1]>>

(***************************************************************************)
(* Editing helpers                                                         *)
(***************************************************************************)
blank_experience ==
    Dict([title |-> Str(<<>>), company |-> Str(<<>>), dates |-> Str(<<>>),
          description |-> List(<<>>)])

blank_education ==
    Dict([degree |-> Str(<<>>), institution |-> Str(<<>>), dates |-> Str(<<>>),
          details |-> List(<<>>)])

blank_structured_entry ==
    Dict([title |-> Str(<<>>), organization |-> Str(<<>>), dates |-> Str(<<>>),
          description |-> List(<<>>)])

\* str(x) of a value that is no str
StrOf(x) ==
    CASE x.t = "int"  -> Decimal(x.v)
      [] x.t = "list" -> IF x.v = <<>> THEN <<"[", "]">> ELSE <<"[", ".", "]">>
      [] x.t = "dict" -> IF DOMAIN x.v = {} THEN <<"{", "}">> ELSE <<"{", ".", "}">>
      [] OTHER -> x.v

\* a test of the line as it is: a line of blanks passes
IsLineUntrimmed(line) == IsStr(line) /\ line.v # <<>>

IsLine(line) == IsStr(line) /\ Strip(line.v) # <<>>
StripLine(line) == Str(Strip(line.v))

sanitize_multiline(text) ==
    IF ~Truthy(text) THEN <<>>
    ELSE IF IsList(text) THEN SelectMap(text.v, IsLine, StripLine)
    ELSE SelectMap([i \in 1..Len(SplitLines(StrOf(text))) |->
                        Str(SplitLines(StrOf(text))[i])],
                   IsLine, StripLine)

safe_strip(value) ==
    IF IsNone(value) THEN <<>>
    ELSE IF IsStr(value) THEN Strip(value.v)
    ELSE Strip(StrOf(value))

(***************************************************************************)
(* Validator.  A message is its text with the numbers and the label the    *)
(* f-string puts into it.                                                   *)
(***************************************************************************)
MinNameLen == 3
MaxCapsNameLen == 10
MinBulletLen == 10
MinItemLen == 3
DuplicateThreshold == 2

STRUCTURED == <<"s", "t", "r", "u", "c", "t", "u", "r", "e", "d">>
LIST == <<"l", "i", "s", "t">>

Msg(text) == [text |-> text, idx |-> 0, sub |-> 0, label |-> <<>>]
MsgAt(text, idx) == [text |-> text, idx |-> idx, sub |-> 0, label |-> <<>>]
MsgAt2(text, idx, sub) == [text |-> text, idx |-> idx, sub |-> sub, label |-> <<>>]
MsgIn(text, label, idx) == [text |-> text, idx |-> idx, sub |-> 0, label |-> label]

NotExpectedFormat == Msg("Parsed resume data is not in the expected format.")
NameEmpty == Msg("Candidate name is empty.")
NoExperience == Msg("No experience entries provided.")
NoEducation ==
    Msg("No education entries provided - consider adding your educational background.")

\* re.search over the three patterns: the mojibake lead-in, a control
\* character, the replacement character
has_problematic_characters(text) ==
    \/ \E i \in 1..(Len(text) - 1) : text[i] = "U+00E2" /\ text[i + 1] = "U+20AC"
    \/ \E i \in 1..Len(text) : text[i] \in ControlChars
    \/ \E i \in 1..Len(text) : text[i] = "U+FFFD"

\* entry.get(...) raises on anything but a dict
get_signature(entry) ==
    <<ToLower(safe_strip(Get(entry, "title", Str(<<>>)))),
      ToLower(safe_strip(Get(entry, "company", Str(<<>>)))),
      ToLower(safe_strip(Get(entry, "degree", Str(<<>>)))),
      ToLower(safe_strip(Get(entry, "institution", Str(<<>>))))>>

\* a count in which two empty positions match as well
MatchCountWithEmpty(sig1, sig2) ==
    Cardinality({k \in 1..4 : sig1[k] = sig2[k]})

MatchCount(sig1, sig2) ==
    Cardinality({k \in 1..4 : sig1[k] # <<>> /\ sig2[k] # <<>> /\ sig1[k] = sig2[k]})

is_duplicate_entry(entry1, entry2) ==
    MatchCount(get_signature(entry1), get_signature(entry2)) >= DuplicateThreshold

\* entry or {}
EntryData(entry) == IF Truthy(entry) THEN entry ELSE EmptyDict

\* enumerate(x) raises TypeError on None and numbers; iterating a str or a
\* dict yields str items, on which .get raises
Entries(x) ==
    IF IsList(x) THEN x.v
    ELSE IF IsStr(x) THEN [i \in 1..Len(x.v) |-> Str(<<x.v[i]>>)]
    ELSE <<>>

\* a name check that does not trim: a name of blanks passes
NameErrorsUntrimmed(data) ==
    IF ~Truthy(Get(data, "name", Str(<<>>))) THEN <<NameEmpty>> ELSE <<>>

NameErrors(data) ==
    IF safe_strip(Get(data, "name", Str(<<>>))) = <<>> THEN <<NameEmpty>> ELSE <<>>

NameWarnings(data) ==
    LET name == safe_strip(Get(data, "name", Str(<<>>)))
    IN IF name = <<>> THEN <<>>
       ELSE IF Len(name) < MinNameLen
            THEN <<Msg("Name seems too short - is it complete?")>>
       ELSE IF IsUpper(name) /\ Len(name) > MaxCapsNameLen
            THEN <<Msg("Name is in all caps - consider using proper case.")>>
       ELSE <<>>

ExperienceEntryErrors(idx, entry) ==
    LET entry_data == EntryData(entry)
        title == safe_strip(Get(entry_data, "title", Str(<<>>)))
        company == safe_strip(Get(entry_data, "company", Str(<<>>)))
    IN IF title = <<>> /\ company = <<>>
       THEN <<MsgAt("Experience #{idx} is missing both title and company.", idx)>>
       ELSE <<>>

\* a length test that is off by one: a bullet of 10 characters is too short
BulletWarningsInclusive(idx, bullet_idx, bullet) ==
    (IF Len(Strip(bullet.v)) <= MinBulletLen
     THEN <<MsgAt2("Experience #{idx}, bullet {bullet_idx} is too short (less than 10 characters).",
                   idx, bullet_idx)>>
     ELSE <<>>)
    \o (IF has_problematic_characters(bullet.v)
        THEN <<MsgAt2("Experience #{idx}, bullet {bullet_idx} contains special characters that may not render properly.",
                      idx, bullet_idx)>>
        ELSE <<>>)

BulletWarnings(idx, bullet_idx, bullet) ==
    (IF Len(Strip(bullet.v)) < MinBulletLen
     THEN <<MsgAt2("Experience #{idx}, bullet {bullet_idx} is too short (less than 10 characters).",
                   idx, bullet_idx)>>
     ELSE <<>>)
    \o (IF has_problematic_characters(bullet.v)
        THEN <<MsgAt2("Experience #{idx}, bullet {bullet_idx} contains special characters that may not render properly.",
                      idx, bullet_idx)>>
        ELSE <<>>)

ExperienceEntryWarnings(idx, entry) ==
    LET entry_data == EntryData(entry)
        title == safe_strip(Get(entry_data, "title", Str(<<>>)))
        company == safe_strip(Get(entry_data, "company", Str(<<>>)))
        dates == safe_strip(Get(entry_data, "dates", Str(<<>>)))
        description == sanitize_multiline(Get(entry_data, "description", List(<<>>)))
        bullet(b) == BulletWarnings(idx, b, description[b])
    IN (IF title = <<>>
        THEN <<MsgAt("Experience #{idx} is missing job title.", idx)>> ELSE <<>>)
       \o (IF company = <<>>
           THEN <<MsgAt("Experience #{idx} is missing company name.", idx)>> ELSE <<>>)
       \o (IF dates = <<>>
           THEN <<MsgAt("Experience #{idx} is missing dates.", idx)>> ELSE <<>>)
       \o (IF description = <<>>
           THEN <<MsgAt("Experience #{idx} has no bullet points.", idx)>>
           ELSE ConcatMap(Len(description), bullet))

DuplicateWarnings(experience) ==
    LET n == Len(experience)
        pair(i, j) ==
            IF is_duplicate_entry(experience[i], experience[j])
            THEN <<MsgAt2("Experience #{i+1} and #{j+1} appear to be duplicates.", i, j)>>
            ELSE <<>>
        row(i) ==
            LET from_i(k) == pair(i, i + k) IN ConcatMap(n - i, from_i)
    IN IF n > 1 THEN ConcatMap(n, row) ELSE <<>>

ExperienceErrors(data) ==
    LET experience == Get(data, "experience", List(<<>>))
        entry(i) == ExperienceEntryErrors(i, Entries(experience)[i])
    IN IF ~Truthy(experience) THEN <<NoExperience>>
       ELSE ConcatMap(Len(Entries(experience)), entry)

ExperienceWarnings(data) ==
    LET experience == Get(data, "experience", List(<<>>))
        entry(i) == ExperienceEntryWarnings(i, Entries(experience)[i])
    IN IF ~Truthy(experience) THEN <<>>
       ELSE ConcatMap(Len(Entries(experience)), entry)
            \o DuplicateWarnings(Entries(experience))

EducationEntryErrors(idx, entry) ==
    LET entry_data == EntryData(entry)
        degree == safe_strip(Get(entry_data, "degree", Str(<<>>)))
        institution == safe_strip(Get(entry_data, "institution", Str(<<>>)))
        dates == safe_strip(Get(entry_data, "dates", Str(<<>>)))
    IN IF degree = <<>> /\ institution = <<>> /\ dates = <<>>
       THEN <<MsgAt("Education entry #{idx} is completely empty.", idx)>>
       ELSE <<>>

EducationEntryWarnings(idx, entry) ==
    LET entry_data == EntryData(entry)
        degree == safe_strip(Get(entry_data, "degree", Str(<<>>)))
        institution == safe_strip(Get(entry_data, "institution", Str(<<>>)))
        dates == safe_strip(Get(entry_data, "dates", Str(<<>>)))
    IN IF degree = <<>> /\ institution = <<>> /\ dates = <<>> THEN <<>>
       ELSE (IF degree = <<>>
             THEN <<MsgAt("Education #{idx} is missing degree/credential.", idx)>>
             ELSE <<>>)
            \o (IF institution = <<>>
                THEN <<MsgAt("Education #{idx} is missing institution name.", idx)>>
                ELSE <<>>)
            \o (IF dates = <<>>
                THEN <<MsgAt("Education #{idx} is missing dates.", idx)>> ELSE <<>>)

\* a validator that requires education as it requires experience
EducationErrorsRequired(data) ==
    LET education == Get(data, "education", List(<<>>))
        entry(i) == EducationEntryErrors(i, Entries(education)[i])
    IN IF ~Truthy(education) THEN <<Msg("No education entries provided.")>>
       ELSE ConcatMap(Len(Entries(education)), entry)

EducationErrors(data) ==
    LET education == Get(data, "education", List(<<>>))
        entry(i) == EducationEntryErrors(i, Entries(education)[i])
    IN IF ~Truthy(education) THEN <<>>
       ELSE ConcatMap(Len(Entries(education)), entry)

EducationWarnings(data) ==
    LET education == Get(data, "education", List(<<>>))
        entry(i) == EducationEntryWarnings(i, Entries(education)[i])
    IN IF ~Truthy(education) THEN <<NoEducation>>
       ELSE ConcatMap(Len(Entries(education)), entry)

SectionWarnings(sec_idx, section) ==
    LET section_title == safe_strip(Get(section, "section_title", Str(<<>>)))
        section_type == Get(section, "type", Str(<<>>))
        entries == Get(section, "entries", List(<<>>))
        items == Get(section, "items", List(<<>>))
        entry_warning(i) ==
            IF AnyTruthy(<<Str(safe_strip(Get(entries.v[i], "title", Str(<<>>)))),
                           Str(safe_strip(Get(entries.v[i], "organization", Str(<<>>)))),
                           Get(entries.v[i], "description", List(<<>>))>>)
            THEN <<>>
            ELSE <<MsgIn("Section '{section_title}', entry #{entry_idx} is empty.",
                         section_title, i)>>
        item_warning(i) ==
            IF Len(safe_strip(Entries(items)[i])) < MinItemLen
            THEN <<MsgIn("Section '{section_title}', item #{item_idx} is too short.",
                         section_title, i)>>
            ELSE <<>>
    IN (IF section_title = <<>>
        THEN <<MsgAt("Additional section #{sec_idx} has no title.", sec_idx)>>
        ELSE <<>>)
       \o (IF section_type = Str(STRUCTURED)
           THEN (IF ~Truthy(entries)
                 THEN <<MsgIn("Section '{section_title}' has no entries.",
                              section_title, 0)>>
                 ELSE <<>>)
                \o ConcatMap(Len(Entries(entries)), entry_warning)
           ELSE IF section_type = Str(LIST)
           THEN (IF ~Truthy(items)
                 THEN <<MsgIn("Section '{section_title}' has no items.",
                              section_title, 0)>>
                 ELSE <<>>)
                \o ConcatMap(Len(Entries(items)), item_warning)
           ELSE <<>>)

OtherSectionsWarnings(data) ==
    LET other_sections == Get(data, "other_sections", List(<<>>))
        section(i) == SectionWarnings(i, Entries(other_sections)[i])
    IN ConcatMap(Len(Entries(other_sections)), section)

\* The places where validate_resume_data raises instead of returning: a loop
\* over a value that is no list, and .get on a value that is no dict.
EntryListRaises(x, check_pairs) ==
    /\ Truthy(x)
    /\ \/ ~IsList(x)
       \/ \E i \in 1..Len(x.v) : Truthy(x.v[i]) /\ ~IsDict(x.v[i])
       \/ check_pairs /\ Len(x.v) > 1 /\ \E i \in 1..Len(x.v) : ~IsDict(x.v[i])

SectionRaises(section) ==
    \/ ~IsDict(section)
    \/ /\ IsDict(section)
       /\ Get(section, "type", Str(<<>>)) = Str(STRUCTURED)
       /\ LET entries == Get(section, "entries", List(<<>>))
          IN \/ IsNone(entries) \/ entries.t = "int"
             \/ entries.t \in {"str", "dict"} /\ Truthy(entries)
             \/ IsList(entries) /\ \E i \in 1..Len(entries.v) : ~IsDict(entries.v[i])
    \/ /\ IsDict(section)
       /\ Get(section, "type", Str(<<>>)) = Str(LIST)
       /\ LET items == Get(section, "items", List(<<>>))
          IN IsNone(items) \/ items.t = "int"

OtherSectionsRaises(x) ==
    \/ IsNone(x) \/ x.t = "int"
    \/ x.t \in {"str", "dict"} /\ Truthy(x)
    \/ IsList(x) /\ \E i \in 1..Len(x.v) : SectionRaises(x.v[i])

ValidateRaises(data) ==
    /\ IsDict(data)
    /\ \/ EntryListRaises(Get(data, "experience", List(<<>>)), TRUE)
       \/ EntryListRaises(Get(data, "education", List(<<>>)), FALSE)
       \/ OtherSectionsRaises(Get(data, "other_sections", List(<<>>)))

\* validate_resume_data past its guard: the four blocks over a dict
ValidateRecord(data) ==
    IF ValidateRaises(data)
    THEN [raised |-> TRUE, errors |-> <<>>, warnings |-> <<>>]
    ELSE [raised |-> FALSE,
          errors |-> NameErrors(data) \o ExperienceErrors(data)
                     \o EducationErrors(data),
          warnings |-> NameWarnings(data) \o ExperienceWarnings(data)
                       \o EducationWarnings(data) \o OtherSectionsWarnings(data)]

\* a validator that lets a value that is no dict pass
validate_without_guard(data) ==
    IF ~IsDict(data)
    THEN [raised |-> FALSE, errors |-> <<>>, warnings |-> <<>>]
    ELSE ValidateRecord(data)

\* validate_resume_data(data): the (errors, warnings) it returns, or raised
validate_resume_data(data) ==
    IF ~IsDict(data)
    THEN [raised |-> FALSE, errors |-> <<NotExpectedFormat>>, warnings |-> <<>>]
    ELSE ValidateRecord(data)

(***************************************************************************)
(* The editor of main(): what its widgets return on their first render of  *)
(* a record, and the record main() reconciles from the widgets' values.    *)
(* A text widget returns a str and a checkbox a bool, so the widget values *)
(* are plain character sequences and BOOLEANs.                             *)
(***************************************************************************)
ContactKeys == {"email", "phone", "mobile", "location", "linkedin", "website", "github"}

excluded_keys ==
    {"name", "experience", "education", "other_sections", "version",
     "email", "phone", "mobile", "location", "linkedin", "website", "github",
     "contact_details"}

\* x.get(key, []) or []
ListOr(d, key) == Or(Get(d, key, List(<<>>)), List(<<>>)).v

\* The editor raises while it draws: .get on an entry that is no dict, a
\* text widget given a value that is no str, join over lines that are no str.
TextField(d, key) == IsStr(Get(d, key, Str(<<>>)))
LinesField(d, key) ==
    LET lines == Or(Get(d, key, List(<<>>)), List(<<>>))
    IN IsList(lines) /\ \A i \in 1..Len(lines.v) : IsStr(lines.v[i])

EntryDraws(entry, scalars, lines) ==
    /\ IsDict(entry)
    /\ \A k \in scalars : TextField(entry, k)
    /\ LinesField(entry, lines)

SectionDraws(section) ==
    /\ IsDict(section)
    /\ TextField(section, "section_title")
    /\ LET entries == Or(Get(section, "entries", List(<<>>)), List(<<>>))
       IN /\ IsList(entries)
          /\ \A i \in 1..Len(entries.v) :
                EntryDraws(entries.v[i], {"title", "organization", "dates"}, "description")
    /\ LinesField(section, "items")

EditorDraws(data) ==
    /\ IsDict(data)
    /\ \A k \in {"name", "version"} \cup ContactKeys : TextField(data, k)
    /\ LinesField(data, "contact_details")
    /\ \A key \in {"experience", "education", "other_sections"} :
          IsList(Or(Get(data, key, List(<<>>)), List(<<>>)))
    /\ \A i \in 1..Len(ListOr(data, "experience")) :
          EntryDraws(ListOr(data, "experience")[i], {"title", "company", "dates"}, "description")
    /\ \A i \in 1..Len(ListOr(data, "education")) :
          EntryDraws(ListOr(data, "education")[i], {"degree", "institution", "dates"}, "details")
    /\ \A i \in 1..Len(ListOr(data, "other_sections")) :
          SectionDraws(ListOr(data, "other_sections")[i])

TextOf(d, key) == Get(d, key, Str(<<>>)).v

\* a text area that shows the lines of a list side by side on one line
lines_on_one_line(d, key) ==
    ConcatMap(Len(ListOr(d, key)), LAMBDA i : ListOr(d, key)[i].v \o <<" ">>)

LinesOf(d, key) == JoinLines(ListOr(d, key))

experience_input(job) ==
    [title |-> TextOf(job, "title"), company |-> TextOf(job, "company"),
     dates |-> TextOf(job, "dates"), description_text |-> LinesOf(job, "description"),
     remove |-> FALSE]

education_input(edu) ==
    [degree |-> TextOf(edu, "degree"), institution |-> TextOf(edu, "institution"),
     dates |-> TextOf(edu, "dates"), details_text |-> LinesOf(edu, "details"),
     remove |-> FALSE]

structured_entry_input(entry) ==
    [title |-> TextOf(entry, "title"), organization |-> TextOf(entry, "organization"),
     dates |-> TextOf(entry, "dates"), description_text |-> LinesOf(entry, "description"),
     remove |-> FALSE]

\* the section's widgets once its selectbox shows section_type
section_input(section, section_type) ==
    [section_title |-> TextOf(section, "section_title"),
     section_type |-> section_type,
     remove |-> FALSE,
     entries_input |->
         IF section_type = STRUCTURED
         THEN [i \in 1..Len(ListOr(section, "entries")) |->
                  structured_entry_input(ListOr(section, "entries")[i])]
         ELSE <<>>,
     items_input |->
         IF section_type = STRUCTURED THEN <<>> ELSE LinesOf(section, "items")]

\* the selectbox's first choice: index 0 unless the type is not "structured"
section_type_default(section) ==
    IF Get(section, "type", Str(STRUCTURED)) = Str(STRUCTURED) THEN STRUCTURED ELSE LIST

\* every widget at the value it is first drawn with
EditorDefaults(data) ==
    [name |-> TextOf(data, "name"),
     version |-> TextOf(data, "version"),
     contact |-> [k \in ContactKeys |-> TextOf(data, k)],
     contact_details |-> LinesOf(data, "contact_details"),
     experience_inputs |->
         [i \in 1..Len(ListOr(data, "experience")) |->
             experience_input(ListOr(data, "experience")[i])],
     education_inputs |->
         [i \in 1..Len(ListOr(data, "education")) |->
             education_input(ListOr(data, "education")[i])],
     other_sections_inputs |->
         [i \in 1..Len(ListOr(data, "other_sections")) |->
             section_input(ListOr(data, "other_sections")[i],
                           section_type_default(ListOr(data, "other_sections")[i]))]]

(***************************************************************************)
(* The editor's keyed widgets.  A widget drawn with key= shows the value   *)
(* st.session_state holds under that key, and its value= argument only     *)
(* when the key is not set; drawing it sets the key.  The model follows    *)
(* the text widgets outside the entry lists.                               *)
(***************************************************************************)
\* the key= of each widget, in the order main() draws them, and the prefix
\* its name starts with
WidgetOrder ==
    <<"editor_name", "editor_version", "contact_email", "contact_phone",
      "contact_mobile", "contact_location", "contact_linkedin",
      "contact_website", "contact_github", "contact_details">>

WidgetKeys == {WidgetOrder[i] : i \in 1..Len(WidgetOrder)}

WidgetPrefix ==
    [key \in WidgetKeys |->
        IF key \in {"editor_name", "editor_version"} THEN "editor_" ELSE "contact_"]

\* the record key a widget takes its value= from
WidgetField ==
    [editor_name |-> "name", editor_version |-> "version",
     contact_email |-> "email", contact_phone |-> "phone",
     contact_mobile |-> "mobile", contact_location |-> "location",
     contact_linkedin |-> "linkedin", contact_website |-> "website",
     contact_github |-> "github", contact_details |-> "contact_details"]

ContactWidget ==
    [email |-> "contact_email", phone |-> "contact_phone",
     mobile |-> "contact_mobile", location |-> "contact_location",
     linkedin |-> "contact_linkedin", website |-> "contact_website",
     github |-> "contact_github"]

NoWidgets == [key \in {} |-> <<>>]

\* a reset that clears the contact widgets as well
reset_every_widget(widgets) ==
    LET keys_to_clear ==
            {key \in DOMAIN widgets :
                WidgetPrefix[key] \in {"editor_", "exp_", "edu_", "section_", "contact_"}}
    IN [key \in DOMAIN widgets \ keys_to_clear |-> widgets[key]]

reset_editor_widget_state(widgets) ==
    LET keys_to_clear ==
            {key \in DOMAIN widgets :
                WidgetPrefix[key] \in {"editor_", "exp_", "edu_", "section_"}}
    IN [key \in DOMAIN widgets \ keys_to_clear |-> widgets[key]]

\* the value= argument of the widget
WidgetDefault(data, key) ==
    IF key = "contact_details" THEN LinesOf(data, "contact_details")
    ELSE TextOf(data, WidgetField[key])

\* the widget's value= argument is one text_input or text_area accepts
WidgetDraws(data, key) ==
    IF key = "contact_details" THEN LinesField(data, "contact_details")
    ELSE TextField(data, WidgetField[key])

\* the widgets main() draws before the first one that raises
DrawnKeys(data) ==
    {WidgetOrder[i] : i \in {j \in 1..Len(WidgetOrder) :
                                \A k \in 1..j : WidgetDraws(data, WidgetOrder[k])}}

\* every widget at the value it is drawn with while the session holds widgets
Drawn(widgets, data) ==
    LET Shown(key, value) == IF key \in DOMAIN widgets THEN widgets[key] ELSE value
    IN [EditorDefaults(data) EXCEPT
           !.name = Shown("editor_name", @),
           !.version = Shown("editor_version", @),
           !.contact = [k \in ContactKeys |-> Shown(ContactWidget[k], @[k])],
           !.contact_details = Shown("contact_details", @)]

\* the widget keys a user's click sends: the values on screen
WidgetValues(inputs) ==
    [key \in WidgetKeys |->
        IF key = "editor_name" THEN inputs.name
        ELSE IF key = "editor_version" THEN inputs.version
        ELSE IF key = "contact_details" THEN inputs.contact_details
        ELSE inputs.contact[WidgetField[key]]]

\* The widget keys a script run leaves.  A run that reaches the editor sets
\* the key of every widget it draws; a key that is set stays set until
\* reset_editor_widget_state deletes it, whether or not the run draws its
\* widget.
WidgetsAfter(widgets, data, reaches_editor) ==
    LET drawn_keys == IF reaches_editor /\ IsDict(data) THEN DrawnKeys(data) ELSE {}
    IN [key \in DOMAIN widgets \cup drawn_keys |->
           IF key \in DOMAIN widgets THEN widgets[key]
           ELSE WidgetDefault(data, key)]

\* main(): the widget keys after the upload step, which resets them with the
\* derived state when the signature changes
TopWidgets(ss) ==
    IF ss.uploaded_file_signature # uploaded_file_signature
    THEN reset_editor_widget_state(widget_state)
    ELSE widget_state

(***************************************************************************)
(* Edit reconciler: main() from sanitized_experience to version_clean.     *)
(***************************************************************************)
UntitledSection ==
    <<"U", "n", "t", "i", "t", "l", "e", "d", " ", "S", "e", "c", "t", "i", "o", "n">>

CleanExperience(entry) ==
    Dict([title |-> Str(Strip(entry.title)), company |-> Str(Strip(entry.company)),
          dates |-> Str(Strip(entry.dates)),
          description |-> List(sanitize_multiline(Str(entry.description_text)))])

CleanEducation(entry) ==
    Dict([degree |-> Str(Strip(entry.degree)),
          institution |-> Str(Strip(entry.institution)),
          dates |-> Str(Strip(entry.dates)),
          details |-> List(sanitize_multiline(Str(entry.details_text)))])

CleanStructuredEntry(entry) ==
    Dict([title |-> Str(Strip(entry.title)),
          organization |-> Str(Strip(entry.organization)),
          dates |-> Str(Strip(entry.dates)),
          description |-> List(sanitize_multiline(Str(entry.description_text)))])

\* a reconciler that looks at the three scalar fields only
KeepExperienceByScalars(entry) ==
    /\ ~entry.remove
    /\ LET c == CleanExperience(entry).v
       IN AnyTruthy(<<c.title, c.company, c.dates>>)

KeepExperience(entry) ==
    /\ ~entry.remove
    /\ LET c == CleanExperience(entry).v
       IN AnyTruthy(<<c.title, c.company, c.dates, c.description>>)

\* a reconciler that drops an education entry only when it is ticked
keep_education_unless_removed(entry) == ~entry.remove

KeepEducation(entry) ==
    /\ ~entry.remove
    /\ LET c == CleanEducation(entry).v
       IN AnyTruthy(<<c.degree, c.institution, c.dates, c.details>>)

KeepStructuredEntry(entry) ==
    /\ ~entry.remove
    /\ LET c == CleanStructuredEntry(entry).v
       IN AnyTruthy(<<c.title, c.organization, c.dates, c.description>>)

sanitized_experience(experience_inputs) ==
    SelectMap(experience_inputs, KeepExperience, CleanExperience)

sanitized_education(education_inputs) ==
    SelectMap(education_inputs, KeepEducation, CleanEducation)

entries_clean(section_input_) ==
    SelectMap(section_input_.entries_input, KeepStructuredEntry, CleanStructuredEntry)

items_clean(section_input_) == sanitize_multiline(Str(section_input_.items_input))

\* a reconciler that keeps the titled sections only
KeepTitledSection(section_input_) ==
    /\ ~section_input_.remove
    /\ Strip(section_input_.section_title) # <<>>

KeepSection(section_input_) ==
    /\ ~section_input_.remove
    /\ \/ Strip(section_input_.section_title) # <<>>
       \/ IF section_input_.section_type = STRUCTURED
          THEN entries_clean(section_input_) # <<>>
          ELSE items_clean(section_input_) # <<>>

CleanSection(section_input_) ==
    LET title_clean == Strip(section_input_.section_title)
        section_title == Str(IF title_clean # <<>> THEN title_clean ELSE UntitledSection)
    IN IF section_input_.section_type = STRUCTURED
       THEN Dict([section_title |-> section_title, type |-> Str(STRUCTURED),
                  entries |-> List(entries_clean(section_input_))])
       ELSE Dict([section_title |-> section_title, type |-> Str(LIST),
                  items |-> List(items_clean(section_input_))])

sanitized_other_sections(other_sections_inputs) ==
    SelectMap(other_sections_inputs, KeepSection, CleanSection)

\* a reconciler that stores every contact input, empty or not
contact_fields_unfiltered(inputs) == ContactKeys

contact_fields(inputs) ==
    {k \in ContactKeys : Strip(inputs.contact[k]) # <<>>}

\* a reconciler that carries no key over
preserved_none(edited_resume_data) == {}

preserved_fields(edited_resume_data) ==
    DOMAIN edited_resume_data.v \ excluded_keys

\* updated_resume, from the stored record and the widgets' values
Reconcile(edited_resume_data, inputs) ==
    LET preserved == preserved_fields(edited_resume_data)
        contact == contact_fields(inputs)
        contact_details_clean == sanitize_multiline(Str(inputs.contact_details))
        version_clean == Strip(inputs.version)
        keys == preserved \cup {"name", "experience", "education", "other_sections"}
                \cup contact
                \cup (IF contact_details_clean # <<>> THEN {"contact_details"} ELSE {})
                \cup (IF version_clean # <<>> THEN {"version"} ELSE {})
    IN Dict([k \in keys |->
            CASE k = "name" -> Str(Strip(inputs.name))
              [] k = "experience" -> List(sanitized_experience(inputs.experience_inputs))
              [] k = "education" -> List(sanitized_education(inputs.education_inputs))
              [] k = "other_sections" ->
                     List(sanitized_other_sections(inputs.other_sections_inputs))
              [] k \in ContactKeys -> Str(Strip(inputs.contact[k]))
              [] k = "contact_details" -> List(contact_details_clean)
              [] k = "version" -> Str(version_clean)
              [] OTHER -> edited_resume_data.v[k]])

(***************************************************************************)
(* Collaborators at their boundary: the uploaded files, the parsing        *)
(* collaborator's cleanup of its JSON, the rendered and merged PDF.        *)
(***************************************************************************)
File(name, size) == [t |-> "file", name |-> name, size |-> size]

\* f"{file.name}:{file.size}"
Signature(file) == Str(file.name \o <<":">> \o Decimal(file.size))

\* os.path.splitext(name)[1].lower(): from the last dot on
RECURSIVE SplitExt(_)
SplitExt(name) ==
    IF name = <<>> THEN <<>>
    ELSE IF \E i \in 2..Len(name) : name[i] = "." THEN SplitExt(Tail(name))
    ELSE IF Head(name) = "." THEN ToLower(name) ELSE <<>>

\* the characters clean_text's lstrip removes: the dash, the space and five
\* bullet shapes
BulletChars == {"-", " ", "U+2022", "U+00B7", "U+2219", "U+2192", "U+25AA"}

clean_text(text) == Strip(LStripChars(Strip(text), BulletChars))

RECURSIVE clean_dict(_)
clean_dict(obj) ==
    CASE obj.t = "dict" -> Dict([k \in DOMAIN obj.v |-> clean_dict(obj.v[k])])
      [] obj.t = "list" -> List([i \in 1..Len(obj.v) |-> clean_dict(obj.v[i])])
      [] obj.t = "str"  -> Str(clean_text(obj.v))
      [] OTHER -> obj

\* json.dumps(x, indent=2, ensure_ascii=False): the text is modelled by the
\* value it encodes
json_dumps(x) == [t |-> "json", v |-> x]

\* the bytes generate_pdf writes for a record, with the candidate sheet that
\* merge_pdfs appended, if any
PdfData(data, appendix) == [primary |-> data, appendix |-> appendix]

Alnum == Upper \cup Lower \cup Digits

ReplaceSpaces(s) == [i \in 1..Len(s) |-> IF s[i] = " " THEN "_" ELSE s[i]]

pdf_filename(updated_resume) ==
    LET name_for_filename ==
            Get(updated_resume, "name", Str(<<"R", "e", "s", "u", "m", "e">>)).v
        kept == SelectSeq(name_for_filename, LAMBDA c : c \in Alnum \cup {" ", "_"})
        safe_name == RStripChars(kept, Whitespace)
    IN <<"F", "o", "r", "m", "a", "t", "t", "e", "d", "_">>
       \o ReplaceSpaces(IF safe_name = <<>> THEN <<"R", "e", "s", "u", "m", "e">>
                        ELSE safe_name)
       \o <<".", "p", "d", "f">>

(***************************************************************************)
(* st.session_state, as one record that the steps of a script run pass on. *)
(* A key that is not set reads as None.                                    *)
(***************************************************************************)
Session ==
    [parsed_resume |-> parsed_resume, edited_resume |-> edited_resume,
     parse_warnings |-> parse_warnings, generated_pdf |-> generated_pdf,
     edited_json |-> edited_json, validation_errors |-> validation_errors,
     validation_warnings |-> validation_warnings,
     uploaded_file_signature |-> uploaded_file_signature,
     uploaded_filename |-> uploaded_filename, candidate_sheet |-> candidate_sheet,
     candidate_sheet_signature |-> candidate_sheet_signature]

\* a key holds a value: it is set, and not to None or []
Held(x) == ~IsNone(x) /\ x # List(<<>>)

SessionKeys ==
    {"parsed_resume", "edited_resume", "parse_warnings", "generated_pdf",
     "edited_json", "validation_errors", "validation_warnings",
     "uploaded_file_signature", "uploaded_filename", "candidate_sheet",
     "candidate_sheet_signature"}

\* the session as the script run leaves it (the value is computed once)
Store(left) ==
    \E ss \in {left} :
    /\ discarded' = {k \in SessionKeys : Held(Session[k]) /\ ~Held(ss[k])}
    /\ parsed_resume' = ss.parsed_resume
    /\ edited_resume' = ss.edited_resume
    /\ parse_warnings' = ss.parse_warnings
    /\ generated_pdf' = ss.generated_pdf
    /\ edited_json' = ss.edited_json
    /\ validation_errors' = ss.validation_errors
    /\ validation_warnings' = ss.validation_warnings
    /\ uploaded_file_signature' = ss.uploaded_file_signature
    /\ uploaded_filename' = ss.uploaded_filename
    /\ candidate_sheet' = ss.candidate_sheet
    /\ candidate_sheet_signature' = ss.candidate_sheet_signature

\* the setdefault calls that open main()
setdefaults(ss) ==
    [ss EXCEPT
        !.parse_warnings = IF IsNone(@) THEN List(<<>>) ELSE @,
        !.validation_errors = IF IsNone(@) THEN List(<<>>) ELSE @,
        !.validation_warnings = IF IsNone(@) THEN List(<<>>) ELSE @]

\* a reset that forgets the rendered output
clear_keeping_generated_pdf(ss) ==
    [ss EXCEPT
        !.parsed_resume = None, !.edited_resume = None, !.parse_warnings = None,
        !.edited_json = None, !.validation_errors = None,
        !.validation_warnings = None, !.uploaded_filename = None,
        !.candidate_sheet = None, !.candidate_sheet_signature = None]

\* the ten keys it pops; the widget keys it resets are followed by TopWidgets
clear_resume_processing_state(ss) ==
    [ss EXCEPT
        !.parsed_resume = None, !.edited_resume = None, !.parse_warnings = None,
        !.generated_pdf = None, !.edited_json = None, !.validation_errors = None,
        !.validation_warnings = None, !.uploaded_filename = None,
        !.candidate_sheet = None, !.candidate_sheet_signature = None]

\* main(): the source upload against the signature the session holds
UploadStep(ss, file) ==
    IF ~IsNone(file)
    THEN IF Signature(file) # ss.uploaded_file_signature
         THEN [clear_resume_processing_state(ss) EXCEPT
                  !.uploaded_file_signature = Signature(file)]
         ELSE ss
    ELSE IF ~IsNone(ss.uploaded_file_signature)
         THEN [clear_resume_processing_state(ss) EXCEPT
                  !.uploaded_file_signature = None]
         ELSE ss

\* a candidate sheet step that leaves the rendered output in place
CandidateSheetStepKeepingOutput(ss, file) ==
    IF ~IsNone(file)
    THEN IF Signature(file) # ss.candidate_sheet_signature
         THEN [ss EXCEPT !.candidate_sheet = file,
                         !.candidate_sheet_signature = Signature(file)]
         ELSE ss
    ELSE IF ~IsNone(ss.candidate_sheet_signature)
         THEN [ss EXCEPT !.candidate_sheet = None,
                         !.candidate_sheet_signature = None]
         ELSE ss

\* main(): the candidate sheet against the signature the session holds
CandidateSheetStep(ss, file) ==
    IF ~IsNone(file)
    THEN IF Signature(file) # ss.candidate_sheet_signature
         THEN [ss EXCEPT !.candidate_sheet = file,
                         !.candidate_sheet_signature = Signature(file),
                         !.generated_pdf = None]
         ELSE ss
    ELSE IF ~IsNone(ss.candidate_sheet_signature)
         THEN [ss EXCEPT !.candidate_sheet = None,
                         !.candidate_sheet_signature = None,
                         !.generated_pdf = None]
         ELSE ss

\* main() from its first line to the Process button
RunTop(ss, file, sheet) == CandidateSheetStep(UploadStep(setdefaults(ss), file), sheet)

(***************************************************************************)
(* Bounds of the model, and the inputs a user and the collaborators give.  *)
(***************************************************************************)
MaxEntries == 1     \* no Add button grows a list beyond this

ResumePdf == File(<<"a", ".", "p", "d", "f">>, 1)
ResumeDocx == File(<<"b", ".", "d", "o", "c", "x">>, 2)
SheetPdf == File(<<"s", ".", "p", "d", "f">>, 3)
SheetDocx == File(<<"s", ".", "D", "O", "C", "X">>, 4)

ResumeFiles == {ResumePdf, ResumeDocx}
SheetFiles == {SheetPdf, SheetDocx}

Ann == <<"A", "n", "n">>
Dev == <<"D", "e", "v">>
Blank == <<" ">>

\* a complete resume, with a note of the parser, a bullet to clean and a key
\* outside the schema
ResumeA ==
    Dict([name |-> Str(<<" ">> \o Ann),
          email |-> Str(<<"a", "@", "x">>),
          experience |-> List(<<
              Dict([title |-> Str(Dev), company |-> Str(<<"X">>),
                    dates |-> Str(<<>>),
                    description |-> List(<<Str(<<"-", " ", "L", "e", "d">>)>>)])>>),
          other_sections |-> List(<<
              Dict([section_title |-> Str(<<"S">>), type |-> Str(LIST),
                    items |-> List(<<Str(<<"S", "Q", "L">>)>>)])>>),
          _warnings |-> List(<<Str(<<"?">>)>>),
          summary |-> Str(<<"L", "e", "a", "d">>),
          version |-> Str(<<"v", "2">>)])

\* a resume with no name and no experience
ResumeB ==
    Dict([name |-> Str(Blank), hobbies |-> List(<<Str(<<"g", "o">>)>>)])

\* a resume whose other_sections is null
ResumeC ==
    Dict([name |-> Str(Ann),
          experience |-> List(<<
              Dict([title |-> Str(Dev), company |-> Str(<<"X">>)])>>),
          other_sections |-> None])

JsonError == [ok |-> FALSE, error |-> "Failed to parse JSON response from Gemini"]
ApiError == [ok |-> FALSE, error |-> "Error calling Gemini API"]
Json(x) == [ok |-> TRUE, json |-> x]

\* what model.generate_content and json.loads come to: an exception, or JSON
ParserResponses ==
    {JsonError, ApiError, Json(List(<<>>)), Json(List(<<Str(<<"x">>)>>)),
     Json(ResumeA), Json(ResumeB), Json(ResumeC)}

\* parse_resume_with_gemini: None after an exception, else the cleaned JSON
parse_resume_with_gemini(response) ==
    IF ~response.ok THEN None ELSE clean_dict(response.json)

WithRemove(entries, r) ==
    [i \in 1..Len(entries) |->
        IF i = r THEN [entries[i] EXCEPT !.remove = TRUE] ELSE entries[i]]

\* The widget values a user clicks Save or Generate with: the values first
\* drawn, the name retyped as blanks or not, one experience entry ticked for
\* removal or none.
UserEdits(drawn) ==
    {[drawn EXCEPT !.name = name,
                   !.experience_inputs = WithRemove(drawn.experience_inputs, r)] :
        name \in {drawn.name, Blank},
        r \in 0..Len(drawn.experience_inputs)}

(***************************************************************************)
(* What a script run shows outside the validation report.                  *)
(***************************************************************************)
ApiKeyMissing == "Please enter your Google Gemini API key to continue."
ExtractFailed == "Failed to extract text from resume."
ParseFailed == "Failed to parse resume data."
ParsedSuccessfully == "Resume parsed successfully"
ReviewParsed == "Review the parsed data below before generating the PDF."
NotObjectFormat == "Parsed data is not in the expected object format."
EditsSaved == "Edits saved to session."
ConvertFailed == "Failed to convert candidate sheet. Proceeding with resume only."
MergeFailed == "Failed to merge candidate sheet. Proceeding with resume only."
PdfGenerated == "PDF generated successfully. Download it below."
PdfFailed == "Failed to generate PDF. Please review the data and try again."
ExtractError == "Error extracting text"
ConvertError == "Error converting DOCX to PDF"
MergeError == "Error merging PDFs"
PdfError == "Error generating PDF"
UncaughtException == "Traceback"

\* main() from "Step 3" on, with no button pressed
EditorNotices(ss) ==
    IF IsNone(ss.edited_resume) THEN {}
    ELSE IF ~IsDict(ss.edited_resume) THEN {NotObjectFormat}
    ELSE IF ~EditorDraws(ss.edited_resume) THEN {UncaughtException}
    ELSE {}

Idle == [op |-> "idle"]

(***************************************************************************)
(* The session: one action is one script run of main(), from the user's    *)
(* interaction that starts it to the end of the script.                    *)
(***************************************************************************)
\* the session after the first script run, with nothing uploaded
FirstRun ==
    /\ uploaded_file = None
    /\ candidate_sheet_file = None
    /\ parsed_resume = None
    /\ edited_resume = None
    /\ parse_warnings = List(<<>>)
    /\ generated_pdf = None
    /\ edited_json = None
    /\ validation_errors = List(<<>>)
    /\ validation_warnings = List(<<>>)
    /\ uploaded_file_signature = None
    /\ uploaded_filename = None
    /\ candidate_sheet = None
    /\ candidate_sheet_signature = None
    /\ widget_state = NoWidgets
    /\ notices = IF api_key THEN {} ELSE {ApiKeyMissing}
    /\ discarded = {}

Init ==
    /\ api_key \in BOOLEAN
    /\ FirstRun
    /\ probe = Idle

\* The key is typed into the sidebar or deleted from it.  Without a key the
\* script stops before it draws the uploaders, which lose their files.
SetApiKey(key) ==
    /\ key # api_key
    /\ api_key' = key
    /\ uploaded_file' = None
    /\ candidate_sheet_file' = None
    /\ IF key
       THEN \E ss \in {RunTop(Session, None, None)} :
               /\ Store(ss) /\ notices' = EditorNotices(ss)
               /\ widget_state' = WidgetsAfter(TopWidgets(ss), ss.edited_resume, TRUE)
       ELSE /\ Store(setdefaults(Session)) /\ notices' = {ApiKeyMissing}
            /\ widget_state' = WidgetsAfter(widget_state, None, FALSE)
    /\ UNCHANGED probe

\* The user picks another resume file, or clears the uploader.
ChangeUpload(file) ==
    /\ api_key
    /\ file # uploaded_file
    /\ uploaded_file' = file
    /\ \E ss \in {RunTop(Session, file, candidate_sheet_file)} :
          /\ Store(ss) /\ notices' = EditorNotices(ss)
          /\ widget_state' = WidgetsAfter(TopWidgets(ss), ss.edited_resume, TRUE)
    /\ UNCHANGED <<api_key, candidate_sheet_file, probe>>

\* The user picks another candidate sheet, or clears that uploader.
ChangeCandidateSheet(file) ==
    /\ api_key
    /\ file # candidate_sheet_file
    /\ candidate_sheet_file' = file
    /\ \E ss \in {RunTop(Session, uploaded_file, file)} :
          /\ Store(ss) /\ notices' = EditorNotices(ss)
          /\ widget_state' = WidgetsAfter(TopWidgets(ss), ss.edited_resume, TRUE)
    /\ UNCHANGED <<api_key, uploaded_file, probe>>

\* main(): what Process stores for a parsed value that is truthy
ProcessStored(ss, parsed_data, filename) ==
    IF IsDict(parsed_data)
    THEN LET model_warnings == Get(parsed_data, "_warnings", List(<<>>))
             parsed_snapshot == Pop(parsed_data, "_warnings")
             report == validate_resume_data(parsed_snapshot)
             stored == [ss EXCEPT !.parse_warnings = model_warnings,
                                  !.parsed_resume = parsed_snapshot,
                                  !.edited_resume = parsed_snapshot,
                                  !.edited_json = json_dumps(parsed_snapshot)]
         IN IF report.raised THEN stored
            ELSE [stored EXCEPT !.validation_errors = List(report.errors),
                                !.validation_warnings = List(report.warnings),
                                !.generated_pdf = None,
                                !.uploaded_filename = Str(filename)]
    ELSE [ss EXCEPT !.parse_warnings = List(<<>>),
                    !.parsed_resume = parsed_data,
                    !.edited_resume = parsed_data,
                    !.edited_json = json_dumps(parsed_data),
                    !.validation_errors = List(<<>>),
                    !.validation_warnings = List(<<>>),
                    !.generated_pdf = None,
                    !.uploaded_filename = Str(filename)]

ProcessRaises(parsed_data) ==
    IsDict(parsed_data) /\ validate_resume_data(Pop(parsed_data, "_warnings")).raised

\* a failed Process that resets what the last parse left
ProcessFailedResets(ss) == clear_resume_processing_state(ss)

\* main(): the two early returns of Process leave the session as it is
ProcessFailed(ss) == ss

\* The Process Resume button: extraction, parsing, and the store.  The
\* extractors return a text, an empty text, or None after an exception.
ClickProcess(raw_text, response) ==
    /\ api_key
    /\ ~IsNone(uploaded_file)
    /\ \E ss \in {RunTop(Session, uploaded_file, candidate_sheet_file)},
          parsed_data \in {parse_resume_with_gemini(response)} :
          IF ~Truthy(raw_text)
          THEN /\ Store(ProcessFailed(ss))
               /\ notices' = {ExtractFailed}
                             \cup (IF IsNone(raw_text) THEN {ExtractError} ELSE {})
               /\ widget_state' = WidgetsAfter(TopWidgets(ss), ss.edited_resume, FALSE)
          ELSE IF ~Truthy(parsed_data)
          THEN /\ Store(ProcessFailed(ss))
               /\ notices' = {ParseFailed}
                             \cup (IF response.ok THEN {} ELSE {response.error})
               /\ widget_state' = WidgetsAfter(TopWidgets(ss), ss.edited_resume, FALSE)
          ELSE \E stored \in {ProcessStored(ss, parsed_data, uploaded_file.name)} :
                  /\ Store(stored)
                  /\ notices' = {ParsedSuccessfully}
                                \cup (IF ProcessRaises(parsed_data)
                                      THEN {UncaughtException}
                                      ELSE {ReviewParsed} \cup EditorNotices(stored))
                  /\ widget_state' =
                        WidgetsAfter(reset_editor_widget_state(TopWidgets(ss)),
                                     stored.edited_resume,
                                     ~ProcessRaises(parsed_data))
    /\ UNCHANGED <<api_key, uploaded_file, candidate_sheet_file, probe>>

\* current.setdefault(key, []).append(blank): the record with one more entry
Appended(data, key, blank) ==
    Put(data, key, List(Append(Get(data, key, List(<<>>)).v, blank)))

\* An Add experience or Add education button, and the rerun it asks for
AddEntry(key, blank) ==
    /\ api_key
    /\ \E ss \in {RunTop(Session, uploaded_file, candidate_sheet_file)} :
       LET current == ss.edited_resume
       IN /\ IsDict(current)
          /\ IF IsList(Get(current, key, List(<<>>)))
             THEN /\ Len(Get(current, key, List(<<>>)).v) < MaxEntries
                  /\ LET added == [ss EXCEPT !.edited_resume =
                                                  Appended(current, key, blank)]
                     IN \E rerun \in {RunTop(added, uploaded_file,
                                             candidate_sheet_file)} :
                           /\ Store(rerun) /\ notices' = EditorNotices(rerun)
                           /\ widget_state' =
                                 WidgetsAfter(TopWidgets(rerun),
                                              rerun.edited_resume, TRUE)
             ELSE /\ Store(ss) /\ notices' = {UncaughtException}
                  /\ widget_state' = WidgetsAfter(TopWidgets(ss), current, FALSE)
    /\ UNCHANGED <<api_key, uploaded_file, candidate_sheet_file, probe>>

AddExperience == AddEntry("experience", blank_experience)

AddEducation == AddEntry("education", blank_education)

\* The Add entry button of the section at sec_idx, whose selectbox shows
\* "structured", and the rerun it asks for
AddStructuredEntry(sec_idx) ==
    /\ api_key
    /\ \E ss \in {RunTop(Session, uploaded_file, candidate_sheet_file)} :
       LET current == ss.edited_resume
       IN /\ IsDict(current)
          /\ EditorDraws(current)
          /\ sec_idx \in 1..Len(ListOr(current, "other_sections"))
          /\ LET sections == ListOr(current, "other_sections")
                 section == sections[sec_idx]
             IN /\ Len(ListOr(section, "entries")) < MaxEntries
                /\ IF IsList(Get(section, "entries", List(<<>>)))
                   THEN LET grown == Appended(section, "entries", blank_structured_entry)
                            added == [ss EXCEPT !.edited_resume =
                                         Put(current, "other_sections",
                                             List([sections EXCEPT ![sec_idx] = grown]))]
                        IN \E rerun \in {RunTop(added, uploaded_file,
                                                candidate_sheet_file)} :
                              /\ Store(rerun) /\ notices' = EditorNotices(rerun)
                              /\ widget_state' =
                                    WidgetsAfter(TopWidgets(rerun),
                                                 rerun.edited_resume, TRUE)
                   ELSE /\ Store(ss) /\ notices' = {UncaughtException}
                        /\ widget_state' = WidgetsAfter(TopWidgets(ss), current, TRUE)
    /\ UNCHANGED <<api_key, uploaded_file, candidate_sheet_file, probe>>

\* main(): what both Save edits and Confirm & Generate PDF store first
\* stores that write the edits through to the parsed record as well, as an
\* edited record sharing its object with the parsed one would
SavedEditsInPlace(ss, updated_resume) ==
    LET report == validate_resume_data(updated_resume)
    IN [ss EXCEPT !.parsed_resume = updated_resume,
                  !.edited_resume = updated_resume,
                  !.edited_json = json_dumps(updated_resume),
                  !.validation_errors = List(report.errors),
                  !.validation_warnings = List(report.warnings)]

SavedEdits(ss, updated_resume) ==
    LET report == validate_resume_data(updated_resume)
    IN [ss EXCEPT !.edited_resume = updated_resume,
                  !.edited_json = json_dumps(updated_resume),
                  !.validation_errors = List(report.errors),
                  !.validation_warnings = List(report.warnings)]

\* The Save edits button
SaveEdits(inputs) ==
    /\ \E ss \in {RunTop(Session, uploaded_file, candidate_sheet_file)} :
          /\ Store(SavedEdits(ss, Reconcile(ss.edited_resume, inputs)))
          /\ notices' = {EditsSaved}
          /\ widget_state' = WidgetValues(inputs)
    /\ UNCHANGED <<api_key, uploaded_file, candidate_sheet_file, probe>>

\* a Generate button that is never disabled
generate_never_disabled(updated_resume) == FALSE

\* generate_disabled = bool(validation_errors)
generate_disabled(updated_resume) ==
    validate_resume_data(updated_resume).errors # <<>>

\* a candidate sheet that is merged whether or not its conversion worked
candidate_temp_pdf_unconverted(sheet, converted) == sheet

\* the candidate sheet as a PDF to merge, or None: a .docx is converted
candidate_temp_pdf(sheet, converted) ==
    IF IsNone(sheet) THEN None
    ELSE IF SplitExt(sheet.name) = <<".", "d", "o", "c", "x">>
         THEN (IF converted THEN sheet ELSE None)
    ELSE IF SplitExt(sheet.name) = <<".", "p", "d", "f">> THEN sheet
    ELSE None

\* What generate_pdf, convert_docx_to_pdf and merge_pdfs return, for the
\* calls that the run makes with this candidate sheet
RenderOutcomes(sheet) ==
    {[rendered |-> FALSE, converted |-> FALSE, merged |-> FALSE]}
    \cup {[rendered |-> TRUE, converted |-> c, merged |-> m] :
             c \in IF ~IsNone(sheet) /\ SplitExt(sheet.name) = <<".", "d", "o", "c", "x">>
                   THEN BOOLEAN ELSE {TRUE},
             m \in IF IsNone(sheet) THEN {TRUE} ELSE BOOLEAN}

\* main(): what Generate does after its four stores, given what the three
\* collaborators return
Rendering(saved, updated_resume, rendered, converted, merged) ==
    LET candidate_sheet_ == saved.candidate_sheet
        convert_fails == /\ ~IsNone(candidate_sheet_)
                         /\ SplitExt(candidate_sheet_.name) = <<".", "d", "o", "c", "x">>
                         /\ ~converted
        sheet == candidate_temp_pdf(candidate_sheet_, converted)
        merge_fails == ~IsNone(sheet) /\ ~merged
        appendix == IF ~IsNone(sheet) /\ merged THEN sheet ELSE None
    IN IF rendered
       THEN /\ Store([saved EXCEPT !.generated_pdf =
                        [t |-> "pdf",
                         data |-> PdfData(updated_resume, appendix),
                         filename |-> pdf_filename(updated_resume)]])
            /\ notices' =
                  {PdfGenerated}
                  \cup (IF convert_fails THEN {ConvertError, ConvertFailed} ELSE {})
                  \cup (IF merge_fails THEN {MergeError, MergeFailed} ELSE {})
       ELSE Store(saved) /\ notices' = {PdfError, PdfFailed}

\* The Confirm & Generate PDF button: the store, the rendering, the merge
ConfirmAndGenerate(inputs) ==
    /\ \E ss \in {RunTop(Session, uploaded_file, candidate_sheet_file)} :
       \E updated_resume \in {Reconcile(ss.edited_resume, inputs)} :
          /\ ~generate_disabled(updated_resume)
          /\ \E saved \in {SavedEdits(ss, updated_resume)} :
             \E outcome \in RenderOutcomes(saved.candidate_sheet) :
                /\ Rendering(saved, updated_resume, outcome.rendered,
                             outcome.converted, outcome.merged)
                /\ widget_state' = WidgetValues(inputs)
    /\ UNCHANGED <<api_key, uploaded_file, candidate_sheet_file, probe>>

\* What extraction and parsing come to: no text, or a text and a response
ProcessOutcomes ==
    {[raw_text |-> text, response |-> ApiError] : text \in {None, Str(<<>>)}}
    \cup {[raw_text |-> Str(<<"c", "v">>), response |-> r] : r \in ParserResponses}

\* the editor is drawn down to its two buttons
EditorOpen ==
    /\ api_key
    /\ IsDict(edited_resume)
    /\ EditorDraws(edited_resume)

Next ==
    \/ \E key \in BOOLEAN : SetApiKey(key)
    \/ \E file \in ResumeFiles \cup {None} : ChangeUpload(file)
    \/ \E file \in SheetFiles \cup {None} : ChangeCandidateSheet(file)
    \/ \E outcome \in ProcessOutcomes : ClickProcess(outcome.raw_text, outcome.response)
    \/ AddExperience
    \/ AddEducation
    \/ \E sec_idx \in 1..MaxEntries : AddStructuredEntry(sec_idx)
    \/ EditorOpen /\ \E inputs \in UserEdits(Drawn(widget_state, edited_resume)) : SaveEdits(inputs)
    \/ EditorOpen /\ \E inputs \in UserEdits(Drawn(widget_state, edited_resume)) : ConfirmAndGenerate(inputs)

Spec == Init /\ [][Next]_vars

(***************************************************************************)
(* The validator on its own: validate_resume_data applied to one value.    *)
(***************************************************************************)
MaxListLen == 2     \* the longest list of entries a probed value holds

\* all sequences over S of length up to n
SeqsUpTo(S, n) == UNION {[1..k -> S] : k \in 0..n}

NameTexts == {<<>>, Blank, <<"A", "l">>, Ann, <<" ">> \o Ann \o <<" ">>}

ExperienceEntries ==
    {Dict([title |-> Str(Dev), company |-> Str(<<"X">>), dates |-> Str(<<"1">>),
           description |-> List(<<Str(<<"L", "e", "d">>)>>)]),
     Dict([title |-> Str(<<" ", "d", "E", "V">>), company |-> Str(<<"x", " ">>),
           dates |-> Str(<<"2">>), description |-> List(<<>>)]),
     Dict([title |-> Str(Dev), company |-> Str(<<>>)]),
     Dict([title |-> Str(<<"E", "n", "g">>), company |-> Str(<<>>), dates |-> Str(Blank),
           description |->
               List(<<Str(<<" ", "L", "e", "d", " ", "t", "e", "a", "m", " ">>),
                      Str(Blank),
                      Str(<<"a", "b", "c", "d", "e", "f", "g", "h", "i", "j">>),
                      Str(<<"a", "b", "c", "d", "e", "f", "g", "h", "i">>)>>)]),
     Dict([title |-> Str(Blank), company |-> Str(<<>>), dates |-> Str(<<"1">>)]),
     EmptyDict}

EducationEntries ==
    {Dict([degree |-> Str(<<"B", "S">>), institution |-> Str(<<"U">>),
           dates |-> Str(<<"1">>), details |-> List(<<>>)]),
     Dict([degree |-> Str(<<>>), institution |-> Str(Blank), dates |-> Str(<<>>)])}

Records ==
    {Dict([name |-> Str(name), experience |-> List(experience),
           education |-> List(education)]) :
        name \in NameTexts,
        experience \in SeqsUpTo(ExperienceEntries, MaxListLen),
        education \in SeqsUpTo(EducationEntries, MaxListLen)}

\* values that are no dict: what json.loads can return besides an object
NonRecords ==
    {None, Str(<<>>), Str(Ann), Num(0), Num(7), List(<<>>), List(<<None>>),
     List(<<Str(Ann)>>), List(<<Dict([name |-> Str(Ann)])>>),
     List(<<Num(1), Num(2)>>)}

\* records with keys missing or null
SparseRecords ==
    {EmptyDict,
     Dict([name |-> None]),
     Dict([name |-> Str(Blank), experience |-> None, education |-> None,
           other_sections |-> List(<<>>)]),
     Dict([name |-> Str(Ann), experience |-> List(<<>>)])}

\* records whose lists hold null or empty entries
GoodJob == Dict([title |-> Str(Dev), company |-> Str(<<"X">>)])

NullEntryRecords ==
    {Dict([name |-> Str(Ann), experience |-> List(experience)]) :
        experience \in {<<None>>, <<None, EmptyDict>>, <<EmptyDict, EmptyDict>>,
                        <<GoodJob, None>>}}
    \cup {Dict([name |-> Str(Ann), experience |-> List(<<GoodJob>>),
                education |-> List(education)]) :
            education \in {<<None>>, <<None, None>>, <<EmptyDict, None>>}}
    \cup {Dict([name |-> Str(Ann), experience |-> List(<<GoodJob>>),
                other_sections |-> other_sections]) :
            other_sections \in
                {None, List(<<None>>), List(<<EmptyDict>>),
                 List(<<Dict([type |-> Str(STRUCTURED), entries |-> List(<<None>>)])>>),
                 List(<<Dict([type |-> Str(STRUCTURED), entries |-> List(<<EmptyDict>>)])>>),
                 List(<<Dict([type |-> Str(LIST), items |-> List(<<None, Str(<<>>)>>)])>>)}}

ValidateInputs == Records \cup SparseRecords \cup NullEntryRecords \cup NonRecords

InitValidate ==
    /\ api_key = TRUE
    /\ FirstRun
    /\ probe \in {[op |-> "validate", data |-> data, done |-> FALSE] :
                    data \in ValidateInputs}

\* entries for is_duplicate_entry: each signature field empty, set, or set
\* in another case and padding; two dates
SignatureEntries ==
    {Dict([title |-> Str(title), company |-> Str(company), degree |-> Str(degree),
           institution |-> Str(institution), dates |-> Str(dates)]) :
        title \in {<<>>, Dev, <<" ", "d", "E", "V">>},
        company \in {<<>>, <<"X">>, <<"x", " ">>},
        degree \in {Blank, <<"B", "S">>},
        institution \in {<<>>, <<"U">>},
        dates \in {<<"1">>, <<"2">>}}
    \cup {EmptyDict, Dict([title |-> None, company |-> Str(<<"X">>)])}

InitDuplicate ==
    /\ api_key = TRUE
    /\ FirstRun
    /\ probe \in {[op |-> "is_duplicate", entry1 |-> entry1, entry2 |-> entry2,
                   done |-> FALSE] :
                    entry1 \in SignatureEntries, entry2 \in SignatureEntries}

\* is_duplicate_entry called on the two entries, in both orders
ApplyDuplicate ==
    /\ probe.op = "is_duplicate"
    /\ ~probe.done
    /\ probe' = [op |-> "is_duplicate", entry1 |-> probe.entry1,
                 entry2 |-> probe.entry2, done |-> TRUE,
                 forward |-> is_duplicate_entry(probe.entry1, probe.entry2),
                 backward |-> is_duplicate_entry(probe.entry2, probe.entry1)]
    /\ UNCHANGED <<api_key, uploaded_file, candidate_sheet_file, session, notices, discarded>>

ApplyValidate ==
    /\ probe.op = "validate"
    /\ ~probe.done
    /\ probe' = [op |-> "validate", data |-> probe.data, done |-> TRUE,
                 report |-> validate_resume_data(probe.data)]
    /\ UNCHANGED <<api_key, uploaded_file, candidate_sheet_file, session, notices, discarded>>

SpecValidate ==
    (InitValidate \/ InitDuplicate) /\ [][ApplyValidate \/ ApplyDuplicate]_vars

(***************************************************************************)
(* The reconciler on its own: Reconcile applied to one stored record and   *)
(* one set of widget values of that record's shape.                        *)
(***************************************************************************)
ExperienceInputs ==
    {[title |-> <<" ", "D", "e", "v", " ">>, company |-> <<"X">>, dates |-> <<"1">>,
      description_text |-> <<" ", "a", "\n", "\n", "b", "\t">>, remove |-> FALSE],
     [title |-> <<"Q", "A">>, company |-> <<"Y">>, dates |-> <<"2">>,
      description_text |-> <<"c">>, remove |-> TRUE],
     [title |-> <<>>, company |-> <<>>, dates |-> <<>>,
      description_text |-> <<>>, remove |-> FALSE],
     [title |-> <<" ">>, company |-> <<"\t">>, dates |-> <<>>,
      description_text |-> <<" ", "\n", " ">>, remove |-> FALSE],
     [title |-> <<>>, company |-> <<>>, dates |-> <<>>,
      description_text |-> <<"\n", "d">>, remove |-> FALSE],
     [title |-> <<>>, company |-> <<" ", "Z">>, dates |-> <<>>,
      description_text |-> <<>>, remove |-> FALSE],
     [title |-> <<>>, company |-> <<>>, dates |-> <<"3">>,
      description_text |-> <<" ">>, remove |-> FALSE]}

EducationInputs ==
    {[degree |-> <<" ", "B", "S">>, institution |-> <<"U">>, dates |-> <<"1">>,
      details_text |-> <<"a", "\n", " ", "b">>, remove |-> FALSE],
     [degree |-> <<"M", "S">>, institution |-> <<"V">>, dates |-> <<"2">>,
      details_text |-> <<>>, remove |-> TRUE],
     [degree |-> <<>>, institution |-> <<>>, dates |-> <<>>,
      details_text |-> <<>>, remove |-> FALSE],
     [degree |-> <<"\t">>, institution |-> <<" ">>, dates |-> <<" ">>,
      details_text |-> <<"\n">>, remove |-> FALSE],
     [degree |-> <<>>, institution |-> <<>>, dates |-> <<>>,
      details_text |-> <<"c", " ">>, remove |-> FALSE],
     [degree |-> <<>>, institution |-> <<"W">>, dates |-> <<>>,
      details_text |-> <<>>, remove |-> FALSE]}

StructuredEntryInputs ==
    {[title |-> <<"P", " ">>, organization |-> <<"O">>, dates |-> <<"1">>,
      description_text |-> <<"a">>, remove |-> FALSE],
     [title |-> <<"R">>, organization |-> <<>>, dates |-> <<>>,
      description_text |-> <<>>, remove |-> TRUE],
     [title |-> <<" ">>, organization |-> <<>>, dates |-> <<"\t">>,
      description_text |-> <<"\n", " ">>, remove |-> FALSE],
     [title |-> <<>>, organization |-> <<>>, dates |-> <<>>,
      description_text |-> <<" ", "b">>, remove |-> FALSE]}

SectionTitles == {<<>>, Blank, <<" ", "S">>}
ItemTexts == {<<>>, <<" ", "\n">>, <<"i", "\n", " ", "j">>}

\* the sections of both types, over these titles and lists of entries
SectionInputs(titles, entry_lists) ==
    {[section_title |-> title, section_type |-> STRUCTURED, remove |-> remove,
      entries_input |-> entries, items_input |-> <<>>] :
        title \in titles, remove \in BOOLEAN, entries \in entry_lists}
    \cup {[section_title |-> title, section_type |-> LIST, remove |-> remove,
           entries_input |-> <<>>, items_input |-> items] :
            title \in titles, remove \in BOOLEAN, items \in ItemTexts}

\* every widget empty
EmptyInputs ==
    [name |-> <<>>, version |-> <<>>, contact |-> [k \in ContactKeys |-> <<>>],
     contact_details |-> <<>>, experience_inputs |-> <<>>,
     education_inputs |-> <<>>, other_sections_inputs |-> <<>>]

\* the scalar widgets: name, version and three of the seven contact inputs,
\* each empty, whitespace only, or a value to trim
ContactTexts == {<<>>, Blank, <<" ", "v", " ">>}

ScalarInputs ==
    {[EmptyInputs EXCEPT !.name = name, !.version = version,
                         !.contact = [k \in ContactKeys |->
                                         CASE k = "email" -> email
                                           [] k = "mobile" -> mobile
                                           [] k = "github" -> github
                                           [] OTHER -> <<>>],
                         !.contact_details = contact_details] :
        contact_details \in {<<>>, <<" ", "n", "\n", "\n", "m", " ">>},
        name \in {<<>>, Blank, <<" ", "A", "n", "n", " ">>},
        version \in {<<>>, Blank, <<"3", " ">>},
        email \in ContactTexts, mobile \in ContactTexts, github \in ContactTexts}

\* a name and one complete experience entry, over the education entries
CompleteButEducation ==
    {[EmptyInputs EXCEPT
         !.name = <<" ", "A", "n", "n">>,
         !.experience_inputs =
             <<[title |-> Dev, company |-> <<"X">>, dates |-> <<"1">>,
                description_text |-> <<"L", "e", "d", " ", "a", " ", "t", "e", "a", "m">>,
                remove |-> FALSE]>>,
         !.education_inputs = xs] :
        xs \in SeqsUpTo(EducationInputs, MaxListLen)}

ReconcileInputs ==
    {[EmptyInputs EXCEPT !.experience_inputs = xs] :
        xs \in SeqsUpTo(ExperienceInputs, MaxListLen)}
    \cup ScalarInputs
    \cup CompleteButEducation
    \cup {[EmptyInputs EXCEPT !.education_inputs = xs] :
            xs \in SeqsUpTo(EducationInputs, MaxListLen)}
    \cup {[EmptyInputs EXCEPT !.other_sections_inputs = <<section>>] :
            section \in SectionInputs(SectionTitles,
                                      SeqsUpTo(StructuredEntryInputs, MaxListLen))}
    \cup {[EmptyInputs EXCEPT !.other_sections_inputs = xs] :
            xs \in SeqsUpTo(SectionInputs({<<>>, <<" ", "S">>},
                                          {<<>>} \cup {<<entry>> :
                                              entry \in StructuredEntryInputs}),
                            MaxListLen)}

\* a stored record that draws widgets of the shape of inputs: entries as the
\* Add buttons leave them, values for scalar fields, two keys outside the schema
PriorOf(inputs) ==
    Dict([name |-> Str(Ann),
          version |-> Str(<<"v", "2">>),
          email |-> Str(<<"a", "@", "x">>),
          mobile |-> Str(<<"5">>),
          contact_details |-> List(<<Str(<<"n">>)>>),
          experience |-> List([i \in 1..Len(inputs.experience_inputs) |->
                                  blank_experience]),
          education |-> List([i \in 1..Len(inputs.education_inputs) |->
                                 blank_education]),
          other_sections |->
              List([i \in 1..Len(inputs.other_sections_inputs) |->
                  LET drawn == inputs.other_sections_inputs[i]
                  IN Dict([section_title |-> Str(<<>>),
                           type |-> Str(drawn.section_type),
                           entries |-> List([j \in 1..Len(drawn.entries_input) |->
                                                blank_structured_entry])])]),
          summary |-> Str(<<" ", "L", "e", "a", "d">>),
          awards |-> List(<<Dict([title |-> Str(<<>>)]), None>>)])

InitReconcile ==
    /\ api_key = TRUE
    /\ FirstRun
    /\ probe \in {[op |-> "reconcile", prior |-> PriorOf(inputs),
                   inputs |-> inputs, done |-> FALSE] :
                    inputs \in ReconcileInputs}

ApplyReconcile ==
    /\ probe.op = "reconcile"
    /\ ~probe.done
    /\ probe' = [op |-> "reconcile", prior |-> probe.prior, inputs |-> probe.inputs,
                 done |-> TRUE,
                 updated_resume |-> Reconcile(probe.prior, probe.inputs)]
    /\ UNCHANGED <<api_key, uploaded_file, candidate_sheet_file, session, notices, discarded>>

\* the run after a save: the editor draws its widgets from the record just
\* stored and the record is reconciled with the widgets untouched
ApplyReconcileAgain ==
    /\ probe.op = "reconcile"
    /\ probe.done
    /\ "again" \notin DOMAIN probe
    /\ EditorDraws(probe.updated_resume)
    /\ probe' = [op |-> "reconcile", prior |-> probe.prior, inputs |-> probe.inputs,
                 done |-> TRUE, updated_resume |-> probe.updated_resume,
                 again |-> Reconcile(probe.updated_resume,
                                     EditorDefaults(probe.updated_resume))]
    /\ UNCHANGED <<api_key, uploaded_file, candidate_sheet_file, session, notices, discarded>>

SpecReconcile == InitReconcile /\ [][ApplyReconcile \/ ApplyReconcileAgain]_vars

(***************************************************************************)
(* Properties of the session life cycle, checked under Spec.               *)
(***************************************************************************)

\* the derived state of one source upload
Derived ==
    <<parsed_resume, edited_resume, parse_warnings, validation_errors,
      validation_warnings, edited_json, generated_pdf>>

\* the last run called generate_pdf
RenderInvoked == PdfGenerated \in notices \/ PdfError \in notices

\* the button is drawn enabled for every record on screen without errors
WarningsDoNotDisable ==
    EditorOpen =>
        \A inputs \in UserEdits(Drawn(widget_state, edited_resume)) :
            LET updated_resume == Reconcile(edited_resume, inputs)
            IN validate_resume_data(updated_resume).errors = <<>>
                  => ~generate_disabled(updated_resume)

\* C1: a run invokes the rendering collaborator, or stores a rendered
\* output, only if validating the record it reconciled reports zero errors;
\* and the Generate button is always enabled for each record on screen that
\* validates without errors, whatever its warnings.
C1_RenderOnlyWithoutErrors ==
    /\ [][(RenderInvoked' \/ (generated_pdf' # generated_pdf /\ ~IsNone(generated_pdf')))
            => /\ IsDict(edited_resume')
               /\ validate_resume_data(edited_resume').errors = <<>>
               /\ validation_errors' = List(<<>>)]_vars
    /\ []WarningsDoNotDisable

\* C1 witness: an output was rendered from a record that has warnings
C1_RenderedWithWarnings ==
    /\ PdfGenerated \in notices
    /\ ~IsNone(generated_pdf)
    /\ validation_errors = List(<<>>)
    /\ Held(validation_warnings)

\* C2: a step in which the source upload's signature changes, to another
\* file's or to none, leaves none of the parsed record, the edited record,
\* the parse warnings, the validation errors and warnings, the serialized
\* record and the rendered output in the session.
C2_UploadChangeClearsDerived ==
    [][uploaded_file_signature' # uploaded_file_signature
          => \A i \in 1..Len(Derived) : IsNone(Derived[i]')]_vars

\* C2 witness: another file replaced the upload while the session held a
\* parsed and edited record, parse warnings, a report and a rendered output
C2_ReplacedAfterRendering ==
    /\ ~IsNone(uploaded_file_signature)
    /\ {"parsed_resume", "edited_resume", "parse_warnings", "validation_warnings",
        "edited_json", "generated_pdf"} \subseteq discarded
    /\ \A i \in 1..Len(Derived) : IsNone(Derived[i])

\* C3 (as the specification states it): a value that is no object is never
\* stored as the parsed or the edited record.
C3_NonObjectNeverStored ==
    /\ IsNone(parsed_resume) \/ IsDict(parsed_resume)
    /\ IsNone(edited_resume) \/ IsDict(edited_resume)

\* C4: a Process run that fails at extraction or at parsing leaves every
\* session key as it reads before the run: the parsed record, the edited
\* record, the validation report and the rendered output are untouched.
C4_FailedProcessKeepsState ==
    [][(ExtractFailed \in notices' \/ ParseFailed \in notices')
          => setdefaults(Session)' = setdefaults(Session)]_vars

\* C4 witness: parsing failed while the session held an edited record, a
\* report with warnings and a rendered output
C4_FailedOverGoodState ==
    /\ ParseFailed \in notices
    /\ IsDict(parsed_resume)
    /\ IsDict(edited_resume)
    /\ Held(validation_warnings)
    /\ ~IsNone(generated_pdf)

\* C5: a step in which the candidate sheet's signature changes (a sheet is
\* attached, replaced or removed) leaves no rendered output; so a rendered
\* output that carries an appendix carries the sheet now attached.
C5_SheetChangeDiscardsOutput ==
    /\ [][candidate_sheet_signature' # candidate_sheet_signature
             => IsNone(generated_pdf')]_vars
    /\ [](~IsNone(generated_pdf) /\ ~IsNone(generated_pdf.data.appendix)
             => generated_pdf.data.appendix = candidate_sheet)

\* C5 witness: a sheet was attached or replaced, and the run dropped the
\* rendered output and nothing else
C5_OutputDroppedForSheet ==
    /\ ~IsNone(candidate_sheet)
    /\ IsDict(edited_resume)
    /\ discarded = {"generated_pdf"}

\* the rendered output is the primary document of the edited record alone
PrimaryAlone ==
    /\ ~IsNone(generated_pdf)
    /\ generated_pdf.data = PdfData(edited_resume, None)
    /\ PdfGenerated \in notices

\* C6: when the conversion or the merge of the candidate sheet fails after
\* the primary document rendered, the run stores the primary document alone
\* as the rendered output and shows the warning of that failure.
C6_SecondaryFailureKeepsPrimary ==
    /\ ConvertError \in notices => ConvertFailed \in notices /\ PrimaryAlone
    /\ MergeError \in notices => MergeFailed \in notices /\ PrimaryAlone

\* C6 witness: the conversion of an attached .docx sheet failed
C6_ConversionFailed ==
    /\ ConvertError \in notices
    /\ candidate_sheet = SheetDocx
    /\ ~IsNone(generated_pdf)

\* the top-level keys of the record's schema
KnownFields ==
    {"name", "email", "phone", "mobile", "location", "linkedin", "website",
     "github", "contact_details", "experience", "education", "other_sections",
     "version"}

\* C8: every key of the parsed record outside the schema is in the edited
\* record with an equal value, after any Save, Generate and Add steps; and
\* the keys the reconciler carries over hold no key of the schema.
C8_ExtensionKeysSurvive ==
    IsDict(parsed_resume) /\ IsDict(edited_resume) =>
        /\ \A k \in DOMAIN parsed_resume.v \ KnownFields :
              /\ k \in DOMAIN edited_resume.v
              /\ edited_resume.v[k] = parsed_resume.v[k]
        /\ preserved_fields(edited_resume) \cap KnownFields = {}

\* C8 witness: edits were saved that changed the record, and it holds a key
\* of the schema and a key outside it
C8_SavedWithExtensionKey ==
    /\ EditsSaved \in notices
    /\ IsDict(parsed_resume)
    /\ IsDict(edited_resume)
    /\ edited_resume # parsed_resume
    /\ "email" \in DOMAIN edited_resume.v
    /\ "summary" \in DOMAIN edited_resume.v

(***************************************************************************)
(* Properties of the validator, checked under SpecValidate.                *)
(***************************************************************************)

\* C7: applied to a value that is no record, the validator returns exactly
\* one error, the structural one, and no warning.
C7_NonRecordOneStructuralError ==
    (probe.op = "validate" /\ probe.done /\ ~IsDict(probe.data)) =>
        /\ ~probe.report.raised
        /\ Len(probe.report.errors) = 1
        /\ probe.report.errors[1].text
              = "Parsed resume data is not in the expected format."
        /\ probe.report.warnings = <<>>

\* C7 witness: the validator was applied to a non-empty list
C7_ValidatedAList ==
    /\ probe.op = "validate"
    /\ probe.done
    /\ probe.data = List(<<Dict([name |-> Str(Ann)])>>)
    /\ Len(probe.report.errors) = 1

(***************************************************************************)
(* clean_encoding of parse_resume_with_gemini, as the source file spells   *)
(* it.  Line 296 replaces the ASCII quote by itself.  On line 297 the      *)
(* three apostrophes open a triple-quoted string that runs to the next     *)
(* three, so the line is one replace of the text  , "'").replace(  by an   *)
(* apostrophe.  The corrupted en-dash of line 299 ends in an ASCII quote.  *)
(***************************************************************************)
\* text.replace(old, new): the occurrences of old, left to right, not
\* overlapping
RECURSIVE Replace(_, _, _)
Replace(text, old, new) ==
    IF Len(text) < Len(old) THEN text
    ELSE IF SubSeq(text, 1, Len(old)) = old
         THEN new \o Replace(SubSeq(text, Len(old) + 1, Len(text)), old, new)
    ELSE <<Head(text)>> \o Replace(Tail(text), old, new)

Subscripts == <<"U+2080", "U+2081", "U+2082", "U+2083", "U+2084",
                "U+2085", "U+2086", "U+2087", "U+2088", "U+2089">>
Superscripts == <<"U+2070", "U+00B9", "U+00B2", "U+00B3", "U+2074",
                  "U+2075", "U+2076", "U+2077", "U+2078", "U+2079">>
AsciiDigits == <<"0", "1", "2", "3", "4", "5", "6", "7", "8", "9">>

\* text.translate(str.maketrans(from, to))
Translate(text, from, to) ==
    [i \in 1..Len(text) |->
        IF \E k \in 1..Len(from) : from[k] = text[i]
        THEN to[CHOOSE k \in 1..Len(from) : from[k] = text[i]]
        ELSE text[i]]

TripleQuoted == <<",", " ", "\"", "'", "\"", ")", ".", "r", "e", "p", "l", "a", "c", "e", "(">>
Mojibake == <<"U+00E2", "U+20AC">>

\* the replacements of lines 294-303, in the order of the source
Replacements ==
    <<[old |-> <<"U+2013">>, new |-> <<"-">>],
      [old |-> <<"U+2014">>, new |-> <<"-">>],
      [old |-> <<"\"">>, new |-> <<"\"">>],
      [old |-> <<"\"">>, new |-> <<"\"">>],
      [old |-> TripleQuoted, new |-> <<"'">>],
      [old |-> <<"U+2026">>, new |-> <<".", ".", ".">>],
      [old |-> Mojibake \o <<"\"">>, new |-> <<"-">>],
      [old |-> Mojibake \o <<"U+0153">>, new |-> <<"\"">>],
      [old |-> Mojibake, new |-> <<"\"">>],
      [old |-> Mojibake \o <<"U+2122">>, new |-> <<"'">>],
      [old |-> Mojibake \o <<"U+02DC">>, new |-> <<"'">>],
      [old |-> Mojibake \o <<"U+00A2">>, new |-> <<"U+2022">>],
      [old |-> Mojibake \o <<"U+00A6">>, new |-> <<".", ".", ".">>]>>

\* the replacements table applied in order, from the first to the n-th
RECURSIVE Replaced(_, _, _)
Replaced(text, table, n) ==
    IF n = 0 THEN text
    ELSE Replace(Replaced(text, table, n - 1), table[n].old, table[n].new)

clean_encoding(text) ==
    IF IsStr(text)
    THEN Str(Translate(Translate(Replaced(text.v, Replacements, Len(Replacements)),
                                 Subscripts, AsciiDigits),
                       Superscripts, AsciiDigits))
    ELSE text

(***************************************************************************)
(* clean_encoding on its own: applied to one text, then to its own output. *)
(***************************************************************************)
MaxPieces == 3     \* the most pieces a probed text is put together from

\* pieces of text: the characters and sequences the table names, the
\* characters that complete a corrupted sequence, and plain characters
Pieces ==
    {<<"U+2013">>, <<"U+2026">>, Mojibake, <<"U+0153">>, <<"U+2122">>, <<"U+02DC">>,
     <<"U+00A2">>, <<"U+00A6">>, <<"\"">>, <<"'">>, <<"a">>, <<"U+2082">>, <<"U+00B2">>}

RECURSIVE Joined(_)
Joined(pieces) == IF pieces = <<>> THEN <<>> ELSE Head(pieces) \o Joined(Tail(pieces))

\* the texts of up to so many pieces, alone and inside the context of the
\* text that line 297 looks for; and values that are no text
EncodingInputs(longest) ==
    {Str(Joined(pieces)) : pieces \in SeqsUpTo(Pieces, longest)}
    \cup {Str(<<",", " ">> \o Joined(pieces) \o SubSeq(TripleQuoted, 6, 15)) :
            pieces \in SeqsUpTo(Pieces, longest)}
    \cup {None, Num(7)}

InitEncoding ==
    /\ api_key = TRUE
    /\ FirstRun
    /\ probe \in {[op |-> "clean_encoding", text |-> text, done |-> FALSE] :
                    text \in EncodingInputs(MaxPieces)}

ApplyEncoding ==
    /\ probe.op = "clean_encoding"
    /\ ~probe.done
    /\ \E cleaned \in {clean_encoding(probe.text)} :
          probe' = [op |-> "clean_encoding", text |-> probe.text, done |-> TRUE,
                    cleaned |-> cleaned, again |-> clean_encoding(cleaned)]
    /\ UNCHANGED <<api_key, uploaded_file, candidate_sheet_file, session, notices, discarded>>

SpecEncoding == InitEncoding /\ [][ApplyEncoding]_vars

(***************************************************************************)
(* sanitize_multiline on its own: applied to one value, then to its own    *)
(* output.                                                                 *)
(***************************************************************************)
MaxTextLen == 4     \* the longest text sanitize_multiline is probed with

TextChars == {"a", " ", "\n", "\r"}

\* the items of the lists: strings blank or not, padded, holding a line
\* break, and values that are no strings
LineItems ==
    {Str(<<>>), Str(Blank), Str(<<" ", "a", "\t">>), Str(<<"b", "\n", "c">>),
     None, Num(7)}

SanitizeInputs ==
    {Str(text) : text \in SeqsUpTo(TextChars, MaxTextLen)}
    \cup {List(items) : items \in SeqsUpTo(LineItems, MaxListLen)}
    \cup {None, Num(0), Num(7), EmptyDict}

InitSanitize ==
    /\ api_key = TRUE
    /\ FirstRun
    /\ probe \in {[op |-> "sanitize", text |-> text, done |-> FALSE] :
                    text \in SanitizeInputs}

ApplySanitize ==
    /\ probe.op = "sanitize"
    /\ ~probe.done
    /\ \E lines \in {sanitize_multiline(probe.text)} :
          probe' = [op |-> "sanitize", text |-> probe.text, done |-> TRUE,
                    lines |-> lines, again |-> sanitize_multiline(List(lines))]
    /\ UNCHANGED <<api_key, uploaded_file, candidate_sheet_file, session, notices, discarded>>

SpecSanitize == InitSanitize /\ [][ApplySanitize]_vars

(***************************************************************************)
(* Properties of the reconciler, checked under SpecReconcile.              *)
(***************************************************************************)

\* the text is empty or holds white space only
AllBlank(text) == \A i \in 1..Len(text) : text[i] \in Whitespace

\* the indices of xs that Dropped does not drop
KeptOf(xs, Dropped(_)) == {i \in 1..Len(xs) : ~Dropped(xs[i])}

\* out is what Clean makes of the entries of xs that Dropped does not drop,
\* in the order of xs
IsKeptInOrder(out, xs, Dropped(_), Clean(_)) ==
    LET kept == KeptOf(xs, Dropped)
    IN /\ Len(out) = Cardinality(kept)
       /\ \A i \in kept : out[Cardinality({k \in kept : k <= i})] = Clean(xs[i])

ExperienceDropped(entry) ==
    \/ entry.remove
    \/ /\ AllBlank(entry.title) /\ AllBlank(entry.company)
       /\ AllBlank(entry.dates) /\ AllBlank(entry.description_text)

EducationDropped(entry) ==
    \/ entry.remove
    \/ /\ AllBlank(entry.degree) /\ AllBlank(entry.institution)
       /\ AllBlank(entry.dates) /\ AllBlank(entry.details_text)

Reconciled == probe.op = "reconcile" /\ probe.done

\* C9: the reconciled experience list is the cleaned entries on screen, in
\* their order, without those ticked for removal and those whose title,
\* company, dates and description hold nothing but white space; and so for
\* the education list with degree, institution, dates and details.
C9_EntriesDroppedIffRemovedOrEmpty ==
    Reconciled =>
        /\ IsKeptInOrder(probe.updated_resume.v.experience.v,
                         probe.inputs.experience_inputs,
                         ExperienceDropped, CleanExperience)
        /\ IsKeptInOrder(probe.updated_resume.v.education.v,
                         probe.inputs.education_inputs,
                         EducationDropped, CleanEducation)

\* C9 witness: of two entries on screen the first, not ticked and blank in
\* every field, is dropped, and the second, with a description only, is kept
C9_BlankDroppedDescriptionKept ==
    /\ Reconciled
    /\ Len(probe.inputs.experience_inputs) = 2
    /\ LET first == probe.inputs.experience_inputs[1]
           second == probe.inputs.experience_inputs[2]
       IN /\ ~first.remove /\ first.title # <<>> /\ ExperienceDropped(first)
          /\ AllBlank(second.title) /\ AllBlank(second.company)
          /\ AllBlank(second.dates) /\ ~ExperienceDropped(second)
    /\ Len(probe.updated_resume.v.experience.v) = 1

StructuredEntryDropped(entry) ==
    \/ entry.remove
    \/ /\ AllBlank(entry.title) /\ AllBlank(entry.organization)
       /\ AllBlank(entry.dates) /\ AllBlank(entry.description_text)

\* the section has an entry (structured) or an item (list) that survives
HasContent(section) ==
    IF section.section_type = STRUCTURED
    THEN KeptOf(section.entries_input, StructuredEntryDropped) # {}
    ELSE ~AllBlank(section.items_input)

SectionDropped(section) ==
    \/ section.remove
    \/ AllBlank(section.section_title) /\ ~HasContent(section)

\* the title a kept section gets
TitleOf(section) ==
    IF AllBlank(section.section_title) THEN UntitledSection
    ELSE Strip(section.section_title)

\* out is the kept section: its title, its type, its entries or its items
IsSectionOf(out, section) ==
    /\ out.v.section_title = Str(TitleOf(section))
    /\ out.v.type = Str(section.section_type)
    /\ IF section.section_type = STRUCTURED
       THEN /\ DOMAIN out.v = {"section_title", "type", "entries"}
            /\ IsKeptInOrder(out.v.entries.v, section.entries_input,
                             StructuredEntryDropped, CleanStructuredEntry)
       ELSE /\ DOMAIN out.v = {"section_title", "type", "items"}
            /\ out.v.items = List(sanitize_multiline(Str(section.items_input)))

\* C10: the reconciled sections are the sections on screen, in their order,
\* without those ticked for removal and those with neither a title nor a
\* surviving entry or item; a kept section with a blank title is titled
\* "Untitled Section"; the entries of a structured section are dropped by
\* the rule of the experience entries.
C10_SectionsDroppedIffRemovedOrEmpty ==
    Reconciled =>
        LET out == probe.updated_resume.v.other_sections.v
            xs == probe.inputs.other_sections_inputs
            kept == KeptOf(xs, SectionDropped)
        IN /\ Len(out) = Cardinality(kept)
           /\ \A i \in kept :
                 IsSectionOf(out[Cardinality({k \in kept : k <= i})], xs[i])

\* C10 witness: of two sections on screen the first, untitled and with
\* nothing that survives, is dropped, and the second, untitled with one
\* surviving entry, is kept as "Untitled Section"
C10_UntitledSectionKept ==
    /\ Reconciled
    /\ Len(probe.inputs.other_sections_inputs) = 2
    /\ LET first == probe.inputs.other_sections_inputs[1]
           second == probe.inputs.other_sections_inputs[2]
       IN /\ ~first.remove /\ SectionDropped(first)
          /\ second.section_type = STRUCTURED
          /\ AllBlank(second.section_title) /\ ~SectionDropped(second)
    /\ Len(probe.updated_resume.v.other_sections.v) = 1
    /\ probe.updated_resume.v.other_sections.v[1].v.section_title
          = Str(UntitledSection)

\* C11: in every record reconcile produces, each of the seven contact fields
\* is present exactly when its edited value is non-empty after trimming, holds
\* the trimmed value, and is never the empty string, whatever the prior record
\* held for the field.
C11_ContactPresentIffNonEmpty ==
    Reconciled =>
        \A k \in ContactKeys :
            /\ k \in DOMAIN probe.updated_resume.v
                  <=> ~AllBlank(probe.inputs.contact[k])
            /\ k \in DOMAIN probe.updated_resume.v =>
                  /\ probe.updated_resume.v[k] = Str(Strip(probe.inputs.contact[k]))
                  /\ probe.updated_resume.v[k] # Str(<<>>)

\* the prior record held an email, its edited value is whitespace only, and
\* another contact field was given a value
C11_PriorEmailCleared ==
    /\ Reconciled
    /\ "email" \in DOMAIN probe.prior.v
    /\ probe.inputs.contact["email"] = Blank
    /\ "email" \notin DOMAIN probe.updated_resume.v
    /\ "github" \in DOMAIN probe.updated_resume.v

\* the field key of a record is absent or a non-empty trimmed string
AbsentOrTrimmed(record, key) ==
    key \in DOMAIN record.v =>
        /\ IsStr(record.v[key])
        /\ record.v[key].v # <<>>
        /\ Strip(record.v[key].v) = record.v[key].v

\* the entries of a list of records all have the fields keys absent or trimmed
EntriesTrimmed(entries, keys) ==
    \A i \in 1..Len(entries) : \A key \in keys : AbsentOrTrimmed(entries[i], key)

\* C12: in every record reconcile produces, name, version and each surviving
\* entry's title, company, dates, degree, institution and organization are
\* absent or a non-empty trimmed string: no empty or whitespace-only string
\* is stored.
C12_NoEmptyStringStored ==
    Reconciled =>
        LET updated == probe.updated_resume
        IN /\ AbsentOrTrimmed(updated, "name")
           /\ AbsentOrTrimmed(updated, "version")
           /\ EntriesTrimmed(updated.v["experience"].v, {"title", "company", "dates"})
           /\ EntriesTrimmed(updated.v["education"].v, {"degree", "institution", "dates"})
           /\ \A i \in 1..Len(updated.v["other_sections"].v) :
                  LET section == updated.v["other_sections"].v[i]
                  IN "entries" \in DOMAIN section.v =>
                         EntriesTrimmed(section.v["entries"].v,
                                        {"title", "organization", "dates"})

ReconciledAgain == Reconciled /\ "again" \in DOMAIN probe

\* C13: reconcile is idempotent: for every record R it produces, reconciling
\* R with the widgets at R's own values (line lists joined by newlines, no
\* removal ticked) yields a record equal to R.
C13_ReconcileIdempotent ==
    ReconciledAgain => probe.again = probe.updated_resume

\* a record with an entry of two description lines was reconciled twice, the
\* first pass having changed what the widgets held
C13_TwoLinesReconciledTwice ==
    /\ ReconciledAgain
    /\ \E i \in 1..Len(probe.updated_resume.v["experience"].v) :
          Len(probe.updated_resume.v["experience"].v[i].v["description"].v) = 2
    /\ EditorDefaults(probe.updated_resume).experience_inputs
          # probe.inputs.experience_inputs

(***************************************************************************)
(* Copies: Python objects are values here, so a store of deepcopy(x) and   *)
(* of x give the same state; what a shared object would show is a stored   *)
(* record that changes in a step that does not store it.                   *)
(***************************************************************************)

SignatureKeys == <<"title", "company", "degree", "institution">>

\* the field lower-cased and trimmed, empty when absent or None
Normalized(entry, key) ==
    IF IsDict(entry) /\ key \in DOMAIN entry.v /\ IsStr(entry.v[key])
    THEN ToLower(Strip(entry.v[key].v))
    ELSE <<>>

\* the signature positions that are non-empty in both entries and equal
EqualPositions(a, b) ==
    {k \in 1..4 : /\ Normalized(a, SignatureKeys[k]) # <<>>
                  /\ Normalized(b, SignatureKeys[k]) # <<>>
                  /\ Normalized(a, SignatureKeys[k]) = Normalized(b, SignatureKeys[k])}

ProbableDuplicates(a, b) == Cardinality(EqualPositions(a, b)) >= 2

Validated == probe.op = "validate" /\ probe.done /\ IsDict(probe.data)

DuplicateNotices ==
    SelectSeq(probe.report.warnings,
              LAMBDA w : w.text = "Experience #{i+1} and #{j+1} appear to be duplicates.")

\* C15: is_duplicate_entry(a, b) equals is_duplicate_entry(b, a) and is true
\* exactly when at least 2 of the 4 signature positions are non-empty in
\* both entries and equal; the validator emits one duplicate warning naming
\* both 1-based positions for each such pair i < j of the experience list
\* and no other, whatever the dates and the education list hold.
C15_DuplicatesSymmetricAndExact ==
    /\ (probe.op = "is_duplicate" /\ probe.done) =>
           /\ probe.forward = probe.backward
           /\ probe.forward = ProbableDuplicates(probe.entry1, probe.entry2)
    /\ Validated =>
           LET experience == ListOr(probe.data, "experience")
               pairs == {ij \in (1..Len(experience)) \X (1..Len(experience)) :
                            /\ ij[1] < ij[2]
                            /\ ProbableDuplicates(experience[ij[1]], experience[ij[2]])}
           IN /\ Len(DuplicateNotices) = Cardinality(pairs)
              /\ \A ij \in pairs :
                    \E n \in 1..Len(DuplicateNotices) :
                        DuplicateNotices[n].idx = ij[1] /\ DuplicateNotices[n].sub = ij[2]
              /\ \A n \in 1..Len(DuplicateNotices) :
                    <<DuplicateNotices[n].idx, DuplicateNotices[n].sub>> \in pairs

\* a record was validated whose two experience entries differ in case,
\* padding and dates and whose two education entries are the same: one
\* duplicate warning, for experience 1 and 2
C15_OneWarningForCaseVariants ==
    /\ Validated
    /\ Len(ListOr(probe.data, "experience")) = 2
    /\ \A i \in 1..2 : IsDict(ListOr(probe.data, "experience")[i])
    /\ ListOr(probe.data, "experience")[1] # ListOr(probe.data, "experience")[2]
    /\ Get(ListOr(probe.data, "experience")[1], "dates", None)
          # Get(ListOr(probe.data, "experience")[2], "dates", None)
    /\ Len(ListOr(probe.data, "education")) = 2
    /\ \A i \in 1..2 : IsDict(ListOr(probe.data, "education")[i])
    /\ is_duplicate_entry(ListOr(probe.data, "education")[1],
                          ListOr(probe.data, "education")[2])
    /\ Len(DuplicateNotices) = 1
    /\ DuplicateNotices[1].idx = 1
    /\ DuplicateNotices[1].sub = 2

\* the value at key is absent, None or a list without entries
NoEntries(data, key) ==
    key \in DOMAIN data.v => \/ IsNone(data.v[key])
                             \/ IsList(data.v[key]) /\ data.v[key].v = <<>>

\* no name after trimming, no experience, no education, no other sections
BareRecord(data) ==
    /\ IsDict(data)
    /\ "name" \in DOMAIN data.v =>
           \/ IsNone(data.v["name"])
           \/ IsStr(data.v["name"]) /\ AllBlank(data.v["name"].v)
    /\ NoEntries(data, "experience")
    /\ NoEntries(data, "education")
    /\ "other_sections" \in DOMAIN data.v => data.v["other_sections"] = List(<<>>)

\* C16: for every record whose name is empty after trimming and that has no
\* experience, no education and no other sections, the validator returns
\* the errors "Candidate name is empty." and "No experience entries
\* provided." in that order and no other, and its warnings hold the
\* missing-education advisory.
C16_BareRecordTwoErrors ==
    (Validated /\ BareRecord(probe.data)) =>
        /\ ~probe.report.raised
        /\ probe.report.errors = <<Msg("Candidate name is empty."),
                                   Msg("No experience entries provided.")>>
        /\ \E n \in 1..Len(probe.report.warnings) :
              probe.report.warnings[n].text =
                  "No education entries provided - consider adding your educational background."

\* the validator was applied to a record with a name of blanks and two
\* empty lists
C16_ValidatedBlankName ==
    /\ Validated
    /\ probe.data = Dict([name |-> Str(Blank), experience |-> List(<<>>),
                          education |-> List(<<>>)])
    /\ Len(probe.report.errors) = 2

\* the report holds, among errors or among warnings, the message text for
\* the entry at position idx
Reported(messages, text, idx) ==
    \E n \in 1..Len(messages) : messages[n].text = text /\ messages[n].idx = idx

\* the entry's field is empty after trimming
FieldEmpty(entry, key) == Normalized(EntryData(entry), key) = <<>>

\* C17: for an experience entry whose title and company are both empty after
\* trimming the validator reports the "missing both title and company"
\* error; the missing-title warning is reported only when the title is empty
\* and the company is present, the missing-company warning only when the
\* company is empty and the title is present.
C17_TitleCompanyNoticesExclusive ==
    Validated =>
        \A idx \in 1..Len(ListOr(probe.data, "experience")) :
            LET entry == ListOr(probe.data, "experience")[idx]
                no_title == FieldEmpty(entry, "title")
                no_company == FieldEmpty(entry, "company")
            IN /\ (no_title /\ no_company) =>
                      Reported(probe.report.errors,
                               "Experience #{idx} is missing both title and company.", idx)
               /\ Reported(probe.report.warnings,
                           "Experience #{idx} is missing job title.", idx)
                     => (no_title /\ ~no_company)
               /\ Reported(probe.report.warnings,
                           "Experience #{idx} is missing company name.", idx)
                     => (no_company /\ ~no_title)

(***************************************************************************)
(* The reconciled record under the validator, checked under SpecReconcile. *)
(***************************************************************************)
MessagesWith(messages, texts) == SelectSeq(messages, LAMBDA w : w.text \in texts)

EducationErrorTexts == {"Education entry #{idx} is completely empty."}

EducationWarningTexts ==
    {"No education entries provided - consider adding your educational background.",
     "Education #{idx} is missing degree/credential.",
     "Education #{idx} is missing institution name.",
     "Education #{idx} is missing dates."}

\* the record with one complete education entry in place of its list
WithCompleteEducation(data) ==
    Put(data, "education",
        List(<<Dict([degree |-> Str(<<"B", "S">>), institution |-> Str(<<"U">>),
                     dates |-> Str(<<"1">>), details |-> List(<<>>)])>>))

\* the report's education part is the one advisory and nothing else, and
\* its errors are those of the same record with a complete education entry
OneAdvisoryNoError(data) ==
    LET report == validate_resume_data(data)
    IN /\ ~report.raised
       /\ MessagesWith(report.errors, EducationErrorTexts) = <<>>
       /\ MessagesWith(report.warnings, EducationWarningTexts) =
              <<Msg("No education entries provided - consider adding your educational background.")>>
       /\ report.errors = validate_resume_data(WithCompleteEducation(data)).errors
       /\ generate_disabled(data) = generate_disabled(WithCompleteEducation(data))

\* C18: an empty or absent education list contributes exactly one warning
\* and never an error: when reconcile removes the only education entry the
\* resulting education list is empty, the validator raises no error about
\* education for it, and Generate is disabled or not as it would be with a
\* complete education entry.
C18_NoEducationIsAWarning ==
    Reconciled =>
        LET updated == probe.updated_resume
            education_inputs == probe.inputs.education_inputs
        IN /\ (Len(education_inputs) = 1 /\ education_inputs[1].remove)
                  => updated.v["education"] = List(<<>>)
           /\ updated.v["education"] = List(<<>>) =>
                  /\ OneAdvisoryNoError(updated)
                  /\ OneAdvisoryNoError(Pop(updated, "education"))

\* the only education entry, a complete one, was removed from a record with
\* a name and a complete experience entry: Generate is not disabled
C18_OnlyEducationRemoved ==
    /\ Reconciled
    /\ Len(probe.inputs.education_inputs) = 1
    /\ probe.inputs.education_inputs[1].remove
    /\ ~AllBlank(probe.inputs.education_inputs[1].degree)
    /\ probe.updated_resume.v["education"] = List(<<>>)
    /\ ~generate_disabled(probe.updated_resume)

(***************************************************************************)
(* Notices of one experience entry, checked under SpecValidate.            *)
(***************************************************************************)
TooShort == "Experience #{idx}, bullet {bullet_idx} is too short (less than 10 characters)."

\* the bullets of an entry: the lines of its description list that are not
\* blank, in their order
BulletsOf(entry) ==
    IF "description" \in DOMAIN entry.v /\ IsList(entry.v["description"])
    THEN SelectSeq(entry.v["description"].v, LAMBDA b : IsStr(b) /\ ~AllBlank(b.v))
    ELSE <<>>

\* the too-short notices of the report for the entry at position idx
TooShortNotices(idx) ==
    SelectSeq(probe.report.warnings, LAMBDA w : w.text = TooShort /\ w.idx = idx)

Sanitized == probe.op = "sanitize" /\ probe.done

\* the lines the input offers: the items of a list, the lines of a string
OfferedLines(text) ==
    IF IsList(text) THEN text.v
    ELSE IF IsStr(text) THEN [i \in 1..Len(SplitLines(text.v)) |-> Str(SplitLines(text.v)[i])]
    ELSE <<>>

\* out holds what is left of the offered lines numbered by at, in order
KeepsOrder(out, offered, at) ==
    /\ \A i \in 1..Len(out) : at[i] \in 1..Len(offered)
    /\ \A i \in 1..Len(out) : IsStr(offered[at[i]]) /\ out[i].v = Strip(offered[at[i]].v)
    /\ \A i \in 1..(Len(out) - 1) : at[i] < at[i + 1]

\* C20: for a multi-line string and for a list of strings, the output of
\* sanitize_multiline has no empty or whitespace-only entry, every entry is
\* trimmed, the entries are the non-blank lines of the input in the input's
\* order, and applying it to its own output returns the same sequence.
C20_SanitizeIdempotentInOrder ==
    Sanitized =>
        LET out == probe.lines
            offered == OfferedLines(probe.text)
            kept == {k \in 1..Len(offered) :
                        IsStr(offered[k]) /\ ~AllBlank(offered[k].v)}
        IN /\ \A i \in 1..Len(out) :
                 /\ IsStr(out[i])
                 /\ ~AllBlank(out[i].v)
                 /\ Strip(out[i].v) = out[i].v
           /\ (IsStr(probe.text) \/ IsList(probe.text)) =>
                 /\ Len(out) = Cardinality(kept)
                 /\ \E at \in [1..Len(out) -> kept] : KeepsOrder(out, offered, at)
           /\ probe.again = out

\* a string with an empty line between two lines gave two lines
C20_BlankLineBetweenTwo ==
    /\ Sanitized
    /\ probe.text = Str(<<"a", "\n", "\n", "a">>)
    /\ Len(probe.lines) = 2
    /\ probe.again = probe.lines

(***************************************************************************)
(* Encoding repair, checked under SpecEncoding.                            *)
(***************************************************************************)
Cleaned == probe.op = "clean_encoding" /\ probe.done

\* C21: clean_encoding is idempotent: applied to its own output it returns
\* that output unchanged, for every text.
C21_CleanEncodingIdempotent ==
    Cleaned => probe.again = probe.cleaned

\* the corrupted sequences of lines 299-303 and the characters meant
CorruptedSequences ==
    <<[corrupted |-> Mojibake \o <<"\"">>, meant |-> <<"-">>],
      [corrupted |-> Mojibake \o <<"U+0153">>, meant |-> <<"\"">>],
      [corrupted |-> Mojibake, meant |-> <<"\"">>],
      [corrupted |-> Mojibake \o <<"U+2122">>, meant |-> <<"'">>],
      [corrupted |-> Mojibake \o <<"U+02DC">>, meant |-> <<"'">>],
      [corrupted |-> Mojibake \o <<"U+00A2">>, meant |-> <<"U+2022">>],
      [corrupted |-> Mojibake \o <<"U+00A6">>, meant |-> <<".", ".", ".">>]>>

\* C22: clean_encoding rewrites each known corrupted sequence to the
\* character meant, alone and between plain characters: a corrupted dash to
\* "-", corrupted quotes to the quote, corrupted apostrophes to the
\* apostrophe, a corrupted bullet to the bullet and a corrupted ellipsis to
\* "...", whatever the order of the table's replacements.
C22_CorruptedSequencesRepaired ==
    Cleaned =>
        \A k \in 1..Len(CorruptedSequences) :
            LET row == CorruptedSequences[k]
            IN /\ probe.text = Str(row.corrupted) => probe.cleaned = Str(row.meant)
               /\ probe.text = Str(<<"a">> \o row.corrupted \o <<"a">>)
                     => probe.cleaned = Str(<<"a">> \o row.meant \o <<"a">>)

\* C23: the validator is total on records that are objects: for every
\* object, also one whose experience, education or other-section lists hold
\* null or empty entries, it returns its report and never raises.
C23_ValidateNeverRaises ==
    Validated => ~probe.report.raised

(***************************************************************************)
(* The stored report and output against the stored record, checked under   *)
(* Spec.                                                                   *)
(***************************************************************************)

\* C24: in every reachable state of the session, a rendered output that is
\* held goes with a stored report without errors and with the stored edited
\* record and JSON it was rendered from; so edits saved after a Generate
\* never leave an output beside a stored record with validation errors.
C24_OutputMatchesStoredRecord ==
    ~IsNone(generated_pdf) =>
        /\ validation_errors = List(<<>>)
        /\ generated_pdf.data.primary = edited_resume
        /\ edited_json = json_dumps(edited_resume)

\* C25: in every reachable state of the session in which an edited record is
\* stored, the stored validation errors and warnings are those the validator
\* gives for that record, after Process (a candidate that is no object
\* included), the Add buttons, Save and Generate in any order.
C25_StoredReportIsOfStoredRecord ==
    ~IsNone(edited_resume) =>
        /\ ~validate_resume_data(edited_resume).raised
        /\ validation_errors = List(validate_resume_data(edited_resume).errors)
        /\ validation_warnings = List(validate_resume_data(edited_resume).warnings)

\* the session holds no widget value but what the editor shows of the record
\* it now holds
NoStaleWidget ==
    \A key \in DOMAIN widget_state :
        /\ IsDict(edited_resume)
        /\ WidgetDraws(edited_resume, key)
        /\ widget_state[key] = WidgetDefault(edited_resume, key)

\* C26: after a run in which the upload's signature changes, or in which
\* Process parses the upload successfully, the session holds no editor widget
\* value of the previous document or parse, the contact fields and the
\* additional contact-detail lines included: every widget key it holds has
\* the value the record now stored gives it.
C26_WidgetsDiscardedWithDerivedState ==
    [][(uploaded_file_signature' # uploaded_file_signature
            \/ ParsedSuccessfully \in notices')
          => NoStaleWidget']_vars

(***************************************************************************)
(* The reconciled record's entry-level errors, checked under SpecReconcile.*)
(***************************************************************************)
MissingTitleAndCompany == "Experience #{idx} is missing both title and company."
CompletelyEmpty == "Education entry #{idx} is completely empty."

ReconciledErrors == validate_resume_data(probe.updated_resume).errors

NoTitleNoCompany(entry) == FieldEmpty(entry, "title") /\ FieldEmpty(entry, "company")

NoDegreeInstitutionDates(entry) ==
    /\ FieldEmpty(entry, "degree")
    /\ FieldEmpty(entry, "institution")
    /\ FieldEmpty(entry, "dates")

\* C27 as claimed: every education entry that survives reconcile has one of
\* degree, institution and dates non-empty, every surviving experience entry
\* a title or a company, and the reconciled record's only errors are the
\* empty-name and the empty-experience-list errors.
C27_NoEntryErrorsAfterReconcile ==
    Reconciled =>
        /\ \A idx \in 1..Len(ListOr(probe.updated_resume, "education")) :
              ~NoDegreeInstitutionDates(ListOr(probe.updated_resume, "education")[idx])
        /\ \A idx \in 1..Len(ListOr(probe.updated_resume, "experience")) :
              ~NoTitleNoCompany(ListOr(probe.updated_resume, "experience")[idx])
        /\ \A n \in 1..Len(ReconciledErrors) :
              ReconciledErrors[n] \in {NameEmpty, NoExperience}

\* C27: every education entry that survives reconcile has one of degree,
\* institution, dates and details non-empty, and every surviving experience
\* entry one of title, company, dates and description.  The validator
\* reports the "completely empty" error exactly for the surviving education
\* entries kept for their details alone, and the "missing both title and
\* company" error exactly for the surviving experience entries kept for
\* their dates or description alone; a reconciled record has no error but
\* these, the empty-name and the empty-experience-list errors.
C27_EntryErrorsOnlyForPartlyFilledEntries ==
    Reconciled =>
        LET education == ListOr(probe.updated_resume, "education")
            experience == ListOr(probe.updated_resume, "experience")
        IN /\ \A idx \in 1..Len(education) :
                 /\ ~NoDegreeInstitutionDates(education[idx])
                       \/ ListOr(education[idx], "details") # <<>>
                 /\ Reported(ReconciledErrors, CompletelyEmpty, idx)
                       <=> NoDegreeInstitutionDates(education[idx])
           /\ \A idx \in 1..Len(experience) :
                 /\ ~NoTitleNoCompany(experience[idx])
                       \/ ~FieldEmpty(experience[idx], "dates")
                       \/ ListOr(experience[idx], "description") # <<>>
                 /\ Reported(ReconciledErrors, MissingTitleAndCompany, idx)
                       <=> NoTitleNoCompany(experience[idx])
           /\ \A n \in 1..Len(ReconciledErrors) :
                 \/ ReconciledErrors[n] \in {NameEmpty, NoExperience}
                 \/ ReconciledErrors[n].text \in {CompletelyEmpty, MissingTitleAndCompany}

\* C27 witness: an education entry was kept for its details alone, and the
\* validator reports it as completely empty
C27_KeptForDetailsAlone ==
    /\ Reconciled
    /\ \E idx \in 1..Len(ListOr(probe.updated_resume, "education")) :
          LET entry == ListOr(probe.updated_resume, "education")[idx]
          IN /\ NoDegreeInstitutionDates(entry)
             /\ ListOr(entry, "details") # <<>>
             /\ Reported(ReconciledErrors, CompletelyEmpty, idx)
====
